---- MODULE Spec2Model ----
(***************************************************************************)
(* State-machine model of netbpfload/NetBpfLoad.cpp: main() and the        *)
(* helpers it calls (exists, createSysFsBpfSubDir, writeProcSysFile,       *)
(* loadAllElfObjects).  One action per statement of main(); the results of *)
(* system calls and of the external collaborators are inputs drawn with \E *)
(* at the statement that makes the call.                                   *)
(*                                                                         *)
(* The module also models the private DNS mode methods of                  *)
(* ConnectivitySettingsUtils.java over the Settings.Global store, one      *)
(* action per method call.  Spec runs main() and SettingsSpec runs the     *)
(* settings methods; each leaves the state of the other program alone.     *)
(***************************************************************************)
EXTENDS Integers, Sequences, FiniteSets, TLC

VARIABLES
    pc,                         \* position in main(): the next statement
    argv0,                      \* argv[0] of this invocation
    is_mainline, is_platform,   \* main() locals, lines 236, 239
    device_api_level,           \* main() local, line 241
    has_platform_bpfloader_rc,  \* main() local, line 247
    has_platform_netbpfload_rc, \* main() local, line 249
    kver,                       \* android::bpf::kernelVersion() of the device
    x86, k64, us32, buildType,  \* device facts, "unread" until main() asks
    umask,                      \* the process umask
    fs,                         \* /sys/fs/bpf/: existing subdirectory -> mode
    ret,                        \* value returned by the helper last called
    i,                          \* index into locations[] of the running loop
    dir, listing, pos, retVal,  \* loadAllElfObjects: DIR*, its entries, cursor, result
    calls,                      \* loadProg invocations of the current Location
    sweep,                      \* Locations handed to loadAllElfObjects so far
    results,                    \* values loadAllElfObjects returned so far
    checks,                     \* capability-gate predicates evaluated so far
    sysctls,                    \* /proc/sys files a write was attempted to
    mkdirs,                     \* mkdir(2) calls made so far
    execs,                      \* execve(2) targets attempted so far
    sanity,                     \* outcome of the map write, "none" before it
    map,                        \* <<descriptor createMap() returned>>, << >> before that
    slept,                      \* seconds spent in sleep()
    exitCode,                   \* <<value main() returned>>, << >> before that
    returnedAt,                 \* source line of the return taken, 0 before that
    settings,                   \* Settings.Global: key -> <<string stored>>, << >> if unset
    call,                       \* ConnectivitySettingsUtils method called last, and its argument
    returned,                   \* <<value the method returned>>, << >> if it returned none
    thrown                      \* exception the method threw, "none" if it threw none

vars == << pc, argv0, is_mainline, is_platform, device_api_level,
           has_platform_bpfloader_rc, has_platform_netbpfload_rc, kver,
           x86, k64, us32, buildType, umask, fs, ret, i, dir, listing, pos,
           retVal, calls, sweep, results, checks, sysctls, mkdirs, execs, sanity,
           map, slept, exitCode, returnedAt, settings, call, returned, thrown >>

----------------------------------------------------------------------------
(* Bounds of the model *)

\* Longest directory listing readdir() yields for one Location.
MaxEntries == 2

\* How far beyond the sixteen modes the arguments of setPrivateDnsMode range.
ModeMargin == 1

----------------------------------------------------------------------------
(* Program constants *)

platformBpfLoader  == "/system/bin/bpfloader"
platformNetBpfLoad == "/system/bin/netbpfload"
apexNetBpfLoad     == "/apex/com.android.tethering/bin/netbpfload"

locations == <<
    [dir |-> "/apex/com.android.tethering/etc/bpf/",               prefix |-> "tethering/"],
    [dir |-> "/apex/com.android.tethering/etc/bpf/netd_shared/",   prefix |-> "netd_shared/"],
    [dir |-> "/apex/com.android.tethering/etc/bpf/netd_readonly/", prefix |-> "netd_readonly/"],
    [dir |-> "/apex/com.android.tethering/etc/bpf/net_shared/",    prefix |-> "net_shared/"],
    [dir |-> "/apex/com.android.tethering/etc/bpf/net_private/",   prefix |-> "net_private/"] >>

LoaderDir == "loader"

\* Every name createSysFsBpfSubDir is called with, in call order.
PinPrefixes == [n \in 1..(Len(locations) + 1) |->
                   IF n <= Len(locations) THEN locations[n].prefix ELSE LoaderDir]

PinDirs == {PinPrefixes[n] : n \in DOMAIN PinPrefixes}

S_ISVTX == 512
S_IRWXU == 448
S_IRWXG == 56
S_IRWXO == 7

EEXIST == 17
ENOENT == 2
EINVAL == 22

ANDROID_API_T == 33
ANDROID_API_U == 34
ANDROID_API_V == 35

StallSeconds == 20

----------------------------------------------------------------------------
(* Inputs: what the environment can answer *)

Argv0s == {platformNetBpfLoad, apexNetBpfLoad, "/data/local/tmp/netbpfload"}

\* access(2) on an init script: 0, or -1 with errno ENOENT, or -1 with another errno.
AccessErrnos == {0, ENOENT, 13}

ApiLevels == {32, ANDROID_API_T, ANDROID_API_U, ANDROID_API_V}

KernelVersions == { <<4, 4, 0>>, <<4, 9, 0>>, <<4, 14, 0>>, <<4, 19, 0>>,
                    <<5, 13, 0>>, <<6, 2, 0>> }

BuildTypes == {"eng", "user", "userdebug", "unknown"}

\* A device fact main() has not asked for yet
Unread == "unread"

Umasks == {0, 18}

\* errno of a mkdir(2) that fails for a reason other than EEXIST
MkdirErrnos == {13, 28}

\* errno of an execve(2) that returns; 0 stands for the image being replaced
ExecErrnos == {0, ENOENT}

\* errno of opendir(3): 0 stands for a directory stream being returned
OpendirErrnos == {0, ENOENT, 13}

\* d_name of the entries a Location directory may hold
EntryNames == { <<"a", ".", "o">>, <<".", "o">>, <<"a", ".", "o", "o">> }

RECURSIVE ListingsOfLen(_)
ListingsOfLen(n) ==
    IF n = 0 THEN { << >> }
    ELSE { Append(l, e) : l \in ListingsOfLen(n - 1), e \in EntryNames }

NoRepeat(l) == \A a, b \in DOMAIN l : a # b => l[a] # l[b]

\* What readdir() can yield for one directory: distinct names, in any order.
Listings == { l \in UNION { ListingsOfLen(n) : n \in 0..MaxEntries } : NoRepeat(l) }

\* What loadProg() can report: its return value and *isCritical.
LoadOutcomes == { [ret |-> 0,   critical |-> FALSE],
                  [ret |-> 0,   critical |-> TRUE],
                  [ret |-> -22, critical |-> FALSE],
                  [ret |-> -12, critical |-> TRUE] }

\* What open()+write() on a /proc/sys file can do: errno of open (0: opened),
\* then the value of write() and its errno.
SysWrites == { [openErrno |-> 0,      v |-> 2,  writeErrno |-> 0],
               [openErrno |-> 0,      v |-> 1,  writeErrno |-> 0],
               [openErrno |-> 0,      v |-> -1, writeErrno |-> 1],
               [openErrno |-> ENOENT, v |-> 2,  writeErrno |-> 0],
               [openErrno |-> 13,     v |-> 2,  writeErrno |-> 0] }

\* Directories an earlier run may have left in /sys/fs/bpf: it creates them in
\* call order and stops at the first failure, so it leaves the first n of them.
Leftovers == { { PinPrefixes[k] : k \in 1..n } : n \in 0..Len(PinPrefixes) }

----------------------------------------------------------------------------
(* Helpers of NetBpfLoad.cpp, and the collaborators it consults *)

\* exists(): access(path, F_OK) answered errno e (0: success).  The function
\* returns true, returns false on ENOENT, and abort()s on any other errno.
exists(e) ==
    [ aborted |-> (e # 0 /\ e # ENOENT),
      value   |-> (e = 0) ]

\* android::base::EndsWith(s, suffix)
EndsWith(s, suffix) ==
    /\ Len(s) >= Len(suffix)
    /\ SubSeq(s, Len(s) - Len(suffix) + 1, Len(s)) = suffix

ObjectSuffix == << ".", "o" >>

\* KVER(a, b, c) of the bpf headers: ((a) << 24) + ((b) << 16) + (c)
KVER(a, b, c) == a * (2 ^ 24) + b * (2 ^ 16) + c

\* android::bpf::isAtLeastKernelVersion(major, minor, sub) on a device whose
\* kernel is version kv
isAtLeastKernelVersion(kv, major, minor, sub) ==
    KVER(kv[1], kv[2], kv[3]) >= KVER(major, minor, sub)

\* a & ~b on mode bits
RECURSIVE AndNot(_, _)
AndNot(a, b) ==
    IF a = 0 THEN 0
    ELSE (IF a % 2 = 1 /\ b % 2 = 0 THEN 1 ELSE 0) + 2 * AndNot(a \div 2, b \div 2)

\* mkdir(2) of /sys/fs/bpf/<prefix> with the given mode under umask um, on
\* the filesystem f.  e is the errno the kernel answers when it refuses to
\* create a directory that does not exist yet (0: it does not refuse).
mkdir(f, um, prefix, mode, e) ==
    IF prefix \in DOMAIN f THEN [ret |-> -1, errno |-> EEXIST, fs |-> f]
    ELSE IF e # 0 THEN [ret |-> -1, errno |-> e, fs |-> f]
    ELSE [ret |-> 0, errno |-> 0,
          fs |-> [d \in DOMAIN f \cup {prefix} |->
                     IF d = prefix THEN AndNot(mode, um) ELSE f[d]]]

\* Mutant of createSysFsBpfSubDir: any failure of mkdir() is reported, EEXIST
\* included.
createSysFsBpfSubDir_ReportsEexist(f, um, prefix, e) ==
    IF prefix # ""
    THEN LET prevUmask == um
             m == mkdir(f, 0, prefix, S_ISVTX + S_IRWXU + S_IRWXG + S_IRWXO, e)
         IN  IF m.ret # 0
             THEN [ret |-> -m.errno, fs |-> m.fs, umask |-> 0]
             ELSE [ret |-> 0, fs |-> m.fs, umask |-> prevUmask]
    ELSE [ret |-> 0, fs |-> f, umask |-> um]

\* Mutant of createSysFsBpfSubDir: the error number is returned as it is, not
\* negated.
createSysFsBpfSubDir_ReturnsErrno(f, um, prefix, e) ==
    IF prefix # ""
    THEN LET prevUmask == um
             m == mkdir(f, 0, prefix, S_ISVTX + S_IRWXU + S_IRWXG + S_IRWXO, e)
         IN  IF m.ret # 0 /\ m.errno # EEXIST
             THEN [ret |-> m.errno, fs |-> m.fs, umask |-> 0]
             ELSE [ret |-> 0, fs |-> m.fs, umask |-> prevUmask]
    ELSE [ret |-> 0, fs |-> f, umask |-> um]

\* createSysFsBpfSubDir(prefix) run on filesystem f with process umask um;
\* yields the value returned, the filesystem and the umask it leaves.
createSysFsBpfSubDir(f, um, prefix, e) ==
    IF prefix # ""
    THEN LET prevUmask == um
             m == mkdir(f, 0, prefix, S_ISVTX + S_IRWXU + S_IRWXG + S_IRWXO, e)
         IN  IF m.ret # 0 /\ m.errno # EEXIST
             THEN [ret |-> -m.errno, fs |-> m.fs, umask |-> 0]
             ELSE [ret |-> 0, fs |-> m.fs, umask |-> prevUmask]
    ELSE [ret |-> 0, fs |-> f, umask |-> um]

\* writeProcSysFile(filename, value): len is strlen(value), w what open()
\* and write() answer.
writeProcSysFile(len, w) ==
    IF w.openErrno # 0 THEN -w.openErrno
    ELSE IF w.v < 0 THEN -w.writeErrno
    ELSE IF w.v # len THEN -EINVAL
    ELSE 0

SysctlValueLen == Len(<< "1", "\n" >>)

----------------------------------------------------------------------------
(* ConnectivitySettingsUtils.java: constants, inputs and methods *)

PRIVATE_DNS_MODE_OFF == 1
PRIVATE_DNS_MODE_OPPORTUNISTIC == 2
PRIVATE_DNS_MODE_PROVIDER_HOSTNAME == 3
PRIVATE_DNS_MODE_ADGUARD == 4
PRIVATE_DNS_MODE_APPLIEDPRIVACY == 5
PRIVATE_DNS_MODE_CLEANBROWSING == 6
PRIVATE_DNS_MODE_CIRA == 7
PRIVATE_DNS_MODE_CZNIC == 8
PRIVATE_DNS_MODE_CLOUDFLARE == 9
PRIVATE_DNS_MODE_GOOGLE == 10
PRIVATE_DNS_MODE_MULLVAD == 11
PRIVATE_DNS_MODE_QUADNINE == 12
PRIVATE_DNS_MODE_RESTENA == 13
PRIVATE_DNS_MODE_SWITCH == 14
PRIVATE_DNS_MODE_TWNIC == 15
PRIVATE_DNS_MODE_UNCENSOREDDNS == 16

PRIVATE_DNS_DEFAULT_MODE == "private_dns_default_mode"
PRIVATE_DNS_MODE == "private_dns_mode"
PRIVATE_DNS_MODE_OFF_STRING == "off"
PRIVATE_DNS_MODE_ADGUARD_STRING == "adguard"
PRIVATE_DNS_MODE_APPLIEDPRIVACY_STRING == "appliedprivacy"
PRIVATE_DNS_MODE_CLEANBROWSING_STRING == "cleanbrowsing"
PRIVATE_DNS_MODE_CIRA_STRING == "cira"
PRIVATE_DNS_MODE_CZNIC_STRING == "cznic"
PRIVATE_DNS_MODE_CLOUDFLARE_STRING == "cloudflare"
PRIVATE_DNS_MODE_GOOGLE_STRING == "google"
PRIVATE_DNS_MODE_MULLVAD_STRING == "mullvad"
PRIVATE_DNS_MODE_QUADNINE_STRING == "quadnine"
PRIVATE_DNS_MODE_RESTENA_STRING == "restena"
PRIVATE_DNS_MODE_SWITCH_STRING == "switch"
PRIVATE_DNS_MODE_TWNIC_STRING == "twnic"
PRIVATE_DNS_MODE_UNCENSOREDDNS_STRING == "uncensoreddns"
PRIVATE_DNS_MODE_OPPORTUNISTIC_STRING == "opportunistic"
PRIVATE_DNS_MODE_PROVIDER_HOSTNAME_STRING == "hostname"

IllegalArgumentException == "IllegalArgumentException"
NullPointerException == "NullPointerException"

\* The two settings getPrivateDnsMode reads
SettingKeys == { PRIVATE_DNS_MODE, PRIVATE_DNS_DEFAULT_MODE }

\* Strings a setting may hold: the empty string, the sixteen mode strings, and
\* strings that are no mode string (`settings put global private_dns_mode foo`)
SettingStrings ==
    { "", "off", "adguard", "appliedprivacy", "cleanbrowsing", "cira", "cznic",
      "cloudflare", "google", "mullvad", "quadnine", "restena", "switch", "twnic",
      "uncensoreddns", "opportunistic", "hostname",
      "foo", "OFF", "hostname " }

\* A reference to a String: << >> is null, << s >> the string s
StringRefs == { << >> } \cup { << s >> : s \in SettingStrings }

\* Arguments setPrivateDnsMode is called with: the sixteen modes and
\* ModeMargin integers on either side of them
ModeArgs ==
    (PRIVATE_DNS_MODE_OFF - ModeMargin)..(PRIVATE_DNS_MODE_UNCENSOREDDNS + ModeMargin)

\* TextUtils.isEmpty(str): str == null || str.length() == 0
isEmpty(str) == str = << >> \/ str[1] = ""

\* Settings.Global.getString(cr, name) on the store st: null if name is unset
getString(st, name) == st[name]

\* Settings.Global.putString(cr, name, value) on the store st
putString(st, name, value) == [st EXCEPT ![name] = value]

\* Mutant of getPrivateDnsModeAsString: the last two cases of the switch
\* return each other's string.
getPrivateDnsModeAsString_SwapsLastCases(mode) ==
    LET return(s) == [thrown |-> "none", value |-> << s >>]
    IN  CASE mode = PRIVATE_DNS_MODE_OFF -> return(PRIVATE_DNS_MODE_OFF_STRING)
          [] mode = PRIVATE_DNS_MODE_ADGUARD -> return(PRIVATE_DNS_MODE_ADGUARD_STRING)
          [] mode = PRIVATE_DNS_MODE_APPLIEDPRIVACY ->
                 return(PRIVATE_DNS_MODE_APPLIEDPRIVACY_STRING)
          [] mode = PRIVATE_DNS_MODE_CLEANBROWSING ->
                 return(PRIVATE_DNS_MODE_CLEANBROWSING_STRING)
          [] mode = PRIVATE_DNS_MODE_CIRA -> return(PRIVATE_DNS_MODE_CIRA_STRING)
          [] mode = PRIVATE_DNS_MODE_CZNIC -> return(PRIVATE_DNS_MODE_CZNIC_STRING)
          [] mode = PRIVATE_DNS_MODE_CLOUDFLARE -> return(PRIVATE_DNS_MODE_CLOUDFLARE_STRING)
          [] mode = PRIVATE_DNS_MODE_GOOGLE -> return(PRIVATE_DNS_MODE_GOOGLE_STRING)
          [] mode = PRIVATE_DNS_MODE_MULLVAD -> return(PRIVATE_DNS_MODE_MULLVAD_STRING)
          [] mode = PRIVATE_DNS_MODE_QUADNINE -> return(PRIVATE_DNS_MODE_QUADNINE_STRING)
          [] mode = PRIVATE_DNS_MODE_RESTENA -> return(PRIVATE_DNS_MODE_RESTENA_STRING)
          [] mode = PRIVATE_DNS_MODE_SWITCH -> return(PRIVATE_DNS_MODE_SWITCH_STRING)
          [] mode = PRIVATE_DNS_MODE_TWNIC -> return(PRIVATE_DNS_MODE_TWNIC_STRING)
          [] mode = PRIVATE_DNS_MODE_UNCENSOREDDNS ->
                 return(PRIVATE_DNS_MODE_UNCENSOREDDNS_STRING)
          [] mode = PRIVATE_DNS_MODE_OPPORTUNISTIC ->
                 return(PRIVATE_DNS_MODE_PROVIDER_HOSTNAME_STRING)
          [] mode = PRIVATE_DNS_MODE_PROVIDER_HOSTNAME ->
                 return(PRIVATE_DNS_MODE_OPPORTUNISTIC_STRING)
          [] OTHER -> [thrown |-> IllegalArgumentException, value |-> << >>]

\* getPrivateDnsModeAsString(mode): the string returned, or the exception thrown
getPrivateDnsModeAsString(mode) ==
    LET return(s) == [thrown |-> "none", value |-> << s >>]
    IN  CASE mode = PRIVATE_DNS_MODE_OFF -> return(PRIVATE_DNS_MODE_OFF_STRING)
          [] mode = PRIVATE_DNS_MODE_ADGUARD -> return(PRIVATE_DNS_MODE_ADGUARD_STRING)
          [] mode = PRIVATE_DNS_MODE_APPLIEDPRIVACY ->
                 return(PRIVATE_DNS_MODE_APPLIEDPRIVACY_STRING)
          [] mode = PRIVATE_DNS_MODE_CLEANBROWSING ->
                 return(PRIVATE_DNS_MODE_CLEANBROWSING_STRING)
          [] mode = PRIVATE_DNS_MODE_CIRA -> return(PRIVATE_DNS_MODE_CIRA_STRING)
          [] mode = PRIVATE_DNS_MODE_CZNIC -> return(PRIVATE_DNS_MODE_CZNIC_STRING)
          [] mode = PRIVATE_DNS_MODE_CLOUDFLARE -> return(PRIVATE_DNS_MODE_CLOUDFLARE_STRING)
          [] mode = PRIVATE_DNS_MODE_GOOGLE -> return(PRIVATE_DNS_MODE_GOOGLE_STRING)
          [] mode = PRIVATE_DNS_MODE_MULLVAD -> return(PRIVATE_DNS_MODE_MULLVAD_STRING)
          [] mode = PRIVATE_DNS_MODE_QUADNINE -> return(PRIVATE_DNS_MODE_QUADNINE_STRING)
          [] mode = PRIVATE_DNS_MODE_RESTENA -> return(PRIVATE_DNS_MODE_RESTENA_STRING)
          [] mode = PRIVATE_DNS_MODE_SWITCH -> return(PRIVATE_DNS_MODE_SWITCH_STRING)
          [] mode = PRIVATE_DNS_MODE_TWNIC -> return(PRIVATE_DNS_MODE_TWNIC_STRING)
          [] mode = PRIVATE_DNS_MODE_UNCENSOREDDNS ->
                 return(PRIVATE_DNS_MODE_UNCENSOREDDNS_STRING)
          [] mode = PRIVATE_DNS_MODE_OPPORTUNISTIC ->
                 return(PRIVATE_DNS_MODE_OPPORTUNISTIC_STRING)
          [] mode = PRIVATE_DNS_MODE_PROVIDER_HOSTNAME ->
                 return(PRIVATE_DNS_MODE_PROVIDER_HOSTNAME_STRING)
          [] OTHER -> [thrown |-> IllegalArgumentException, value |-> << >>]

\* `switch (mode)` of getPrivateDnsModeAsInt: a switch on a null String throws
switchOnMode(mode) ==
    LET return(m) == [thrown |-> "none", value |-> << m >>]
    IN  IF mode = << >> THEN [thrown |-> NullPointerException, value |-> << >>]
        ELSE CASE mode[1] = "off" -> return(PRIVATE_DNS_MODE_OFF)
               [] mode[1] = "adguard" -> return(PRIVATE_DNS_MODE_ADGUARD)
               [] mode[1] = "appliedprivacy" -> return(PRIVATE_DNS_MODE_APPLIEDPRIVACY)
               [] mode[1] = "cleanbrowsing" -> return(PRIVATE_DNS_MODE_CLEANBROWSING)
               [] mode[1] = "cira" -> return(PRIVATE_DNS_MODE_CIRA)
               [] mode[1] = "cznic" -> return(PRIVATE_DNS_MODE_CZNIC)
               [] mode[1] = "cloudflare" -> return(PRIVATE_DNS_MODE_CLOUDFLARE)
               [] mode[1] = "google" -> return(PRIVATE_DNS_MODE_GOOGLE)
               [] mode[1] = "mullvad" -> return(PRIVATE_DNS_MODE_MULLVAD)
               [] mode[1] = "quadnine" -> return(PRIVATE_DNS_MODE_QUADNINE)
               [] mode[1] = "restena" -> return(PRIVATE_DNS_MODE_RESTENA)
               [] mode[1] = "switch" -> return(PRIVATE_DNS_MODE_SWITCH)
               [] mode[1] = "twnic" -> return(PRIVATE_DNS_MODE_TWNIC)
               [] mode[1] = "uncensoreddns" -> return(PRIVATE_DNS_MODE_UNCENSOREDDNS)
               [] mode[1] = "hostname" -> return(PRIVATE_DNS_MODE_PROVIDER_HOSTNAME)
               [] mode[1] = "opportunistic" -> return(PRIVATE_DNS_MODE_OPPORTUNISTIC)
               [] OTHER -> return(PRIVATE_DNS_MODE_OPPORTUNISTIC)

\* Mutant of getPrivateDnsModeAsInt: the string is switched on without the
\* test for null or empty.
getPrivateDnsModeAsInt_SwitchesUnchecked(mode) ==
    switchOnMode(mode)

\* getPrivateDnsModeAsInt(mode)
getPrivateDnsModeAsInt(mode) ==
    IF isEmpty(mode)
    THEN [thrown |-> "none", value |-> << PRIVATE_DNS_MODE_OPPORTUNISTIC >>]
    ELSE switchOnMode(mode)

\* getPrivateDnsMode(context) on the store st
getPrivateDnsMode(st) ==
    LET mode  == getString(st, PRIVATE_DNS_MODE)
        mode2 == IF isEmpty(mode) THEN getString(st, PRIVATE_DNS_DEFAULT_MODE) ELSE mode
    IN  getPrivateDnsModeAsInt(mode2)

\* setPrivateDnsMode(context, mode) on the store st: the exception thrown and
\* the store it leaves
setPrivateDnsMode(st, mode) ==
    IF ~( \/ mode = PRIVATE_DNS_MODE_OFF
          \/ mode = PRIVATE_DNS_MODE_ADGUARD
          \/ mode = PRIVATE_DNS_MODE_APPLIEDPRIVACY
          \/ mode = PRIVATE_DNS_MODE_CLEANBROWSING
          \/ mode = PRIVATE_DNS_MODE_CIRA
          \/ mode = PRIVATE_DNS_MODE_CZNIC
          \/ mode = PRIVATE_DNS_MODE_CLOUDFLARE
          \/ mode = PRIVATE_DNS_MODE_GOOGLE
          \/ mode = PRIVATE_DNS_MODE_MULLVAD
          \/ mode = PRIVATE_DNS_MODE_QUADNINE
          \/ mode = PRIVATE_DNS_MODE_RESTENA
          \/ mode = PRIVATE_DNS_MODE_SWITCH
          \/ mode = PRIVATE_DNS_MODE_TWNIC
          \/ mode = PRIVATE_DNS_MODE_UNCENSOREDDNS
          \/ mode = PRIVATE_DNS_MODE_OPPORTUNISTIC
          \/ mode = PRIVATE_DNS_MODE_PROVIDER_HOSTNAME )
    THEN [thrown |-> IllegalArgumentException, settings |-> st]
    ELSE LET s == getPrivateDnsModeAsString(mode)
         IN  IF s.thrown # "none"
             THEN [thrown |-> s.thrown, settings |-> st]
             ELSE [thrown |-> "none", settings |-> putString(st, PRIVATE_DNS_MODE, s.value)]

dnsVars == << settings, call, returned, thrown >>

\* No method of ConnectivitySettingsUtils has been called and no setting is set
NoCall == [name |-> "none", arg |-> 0]

DnsInit ==
    /\ settings = [k \in SettingKeys |-> << >>]
    /\ call = NoCall
    /\ returned = << >>
    /\ thrown = "none"

----------------------------------------------------------------------------
(* main() *)

Init ==
    /\ pc = "start"
    /\ argv0 \in Argv0s
    /\ umask \in Umasks
    /\ \E left \in Leftovers :
          fs = [d \in left |-> S_ISVTX + S_IRWXU + S_IRWXG + S_IRWXO]
    /\ is_mainline = FALSE /\ is_platform = FALSE
    /\ device_api_level = 0
    /\ has_platform_bpfloader_rc = FALSE
    /\ has_platform_netbpfload_rc = FALSE
    /\ kver = << 0, 0, 0 >>
    /\ x86 = Unread /\ k64 = Unread /\ us32 = Unread /\ buildType = Unread
    /\ ret = 0 /\ i = 0
    /\ dir = [state |-> "NULL", errno |-> 0] /\ listing = << >> /\ pos = 0 /\ retVal = 0
    /\ calls = << >> /\ sweep = << >> /\ results = << >> /\ checks = << >>
    /\ sysctls = << >> /\ mkdirs = << >> /\ execs = << >>
    /\ sanity = "none" /\ map = << >>
    /\ slept = 0 /\ exitCode = << >> /\ returnedAt = 0
    /\ DnsInit

devVars   == << x86, k64, us32, buildType >>
localVars == << is_mainline, is_platform, device_api_level,
                has_platform_bpfloader_rc, has_platform_netbpfload_rc, kver >>
loadVars  == << dir, listing, pos, retVal, calls, sweep, results >>
dirVars   == << umask, fs, mkdirs >>

\* `return code;` at the given line of main()
Return(line, code) ==
    /\ pc' = "returned"
    /\ exitCode' = << code >>
    /\ returnedAt' = line

\* main() does not return in this step
NoReturn == UNCHANGED << exitCode, returnedAt >>

\* Mutant of Execve: an extra argument is handed to the new image.
Execve_ExtraArgument(line, target, e) ==
    /\ execs' = Append(execs, [line |-> line, path |-> target,
                               argv |-> << target, "--force" >>, envp |-> "envp"])
    /\ pc' = IF e = 0 THEN "replaced" ELSE "exec_failed"

\* execve(target, {target, NULL}, envp): the image is replaced, or the call
\* returns -1 and main() goes on at the statement after it.
Execve(line, target, e) ==
    /\ execs' = Append(execs, [line |-> line, path |-> target, argv |-> << target >>,
                               envp |-> "envp"])
    /\ pc' = IF e = 0 THEN "replaced" ELSE "exec_failed"

\* lines 236-244
ReadInvocation ==
    /\ pc = "start"
    /\ is_mainline' = (argv0 = apexNetBpfLoad)
    /\ is_platform' = (argv0 = platformNetBpfLoad)
    /\ \E api \in ApiLevels : device_api_level' = api
    /\ pc' = "probe_bpfloader_rc"
    /\ UNCHANGED << argv0, has_platform_bpfloader_rc, has_platform_netbpfload_rc,
                    kver, devVars, dirVars, ret, i, loadVars, checks, sysctls,
                    execs, sanity, map, dnsVars, slept, exitCode, returnedAt >>

\* line 247
ProbeBpfloaderRc ==
    /\ pc = "probe_bpfloader_rc"
    /\ \E e \in AccessErrnos :
          IF exists(e).aborted
          THEN pc' = "aborted" /\ UNCHANGED has_platform_bpfloader_rc
          ELSE /\ has_platform_bpfloader_rc' = exists(e).value
               /\ pc' = "probe_netbpfload_rc"
    /\ UNCHANGED << argv0, is_mainline, is_platform, device_api_level,
                    has_platform_netbpfload_rc, kver, devVars, dirVars, ret, i,
                    loadVars, checks, sysctls, execs, sanity, map, dnsVars, slept, exitCode, returnedAt >>

\* line 249
ProbeNetbpfloadRc ==
    /\ pc = "probe_netbpfload_rc"
    /\ \E e \in AccessErrnos :
          IF exists(e).aborted
          THEN pc' = "aborted" /\ UNCHANGED has_platform_netbpfload_rc
          ELSE /\ has_platform_netbpfload_rc' = exists(e).value
               /\ pc' = "log_startup"
    /\ UNCHANGED << argv0, is_mainline, is_platform, device_api_level,
                    has_platform_bpfloader_rc, kver, devVars, dirVars, ret, i,
                    loadVars, checks, sysctls, execs, sanity, map, dnsVars, slept, exitCode, returnedAt >>

\* lines 251-254: the startup log line reads kernelVersion()
LogStartup ==
    /\ pc = "log_startup"
    /\ \E kv \in KernelVersions : kver' = kv
    /\ pc' = "check_variant"
    /\ UNCHANGED << argv0, is_mainline, is_platform, device_api_level,
                    has_platform_bpfloader_rc, has_platform_netbpfload_rc,
                    devVars, dirVars, ret, i, loadVars, checks, sysctls, execs,
                    sanity, map, dnsVars, slept, exitCode, returnedAt >>

\* lines 256-259
CheckVariant ==
    /\ pc = "check_variant"
    /\ IF ~is_platform /\ ~is_mainline
       THEN Return(258, 1)
       ELSE pc' = "platform_exec" /\ NoReturn
    /\ UNCHANGED << argv0, localVars, devVars, dirVars, ret, i, loadVars, checks,
                    sysctls, execs, sanity, map, dnsVars, slept >>

\* Mutant of PlatformExec: the platform copy looks at the init scripts before
\* it re-executes the module copy.
PlatformExec_ChecksLayoutFirst ==
    /\ pc = "platform_exec"
    /\ IF is_platform
       THEN IF has_platform_bpfloader_rc = has_platform_netbpfload_rc
            THEN Return(271, 1) /\ UNCHANGED execs
            ELSE (\E e \in ExecErrnos : Execve(264, apexNetBpfLoad, e)) /\ NoReturn
       ELSE pc' = "check_no_rc" /\ UNCHANGED execs /\ NoReturn
    /\ UNCHANGED << argv0, localVars, devVars, dirVars, ret, i, loadVars, checks,
                    sysctls, sanity, map, dnsVars, slept >>

\* lines 261-264
PlatformExec ==
    /\ pc = "platform_exec"
    /\ IF is_platform
       THEN \E e \in ExecErrnos : Execve(264, apexNetBpfLoad, e)
       ELSE pc' = "check_no_rc" /\ UNCHANGED execs
    /\ UNCHANGED << argv0, localVars, devVars, dirVars, ret, i, loadVars, checks,
                    sysctls, sanity, map, dnsVars, slept, exitCode, returnedAt >>

\* Mutant of ExecFailed: main() reports success after an execve() that failed.
ExecFailed_ReturnsZero ==
    /\ pc = "exec_failed"
    /\ Return(execs[Len(execs)].line + 2, 0)
    /\ UNCHANGED << argv0, localVars, devVars, dirVars, ret, i, loadVars, checks,
                    sysctls, execs, sanity, map, dnsVars, slept >>

\* lines 265-266, 287-288, 405-406: execve() returned
ExecFailed ==
    /\ pc = "exec_failed"
    /\ Return(execs[Len(execs)].line + 2, 1)
    /\ UNCHANGED << argv0, localVars, devVars, dirVars, ret, i, loadVars, checks,
                    sysctls, execs, sanity, map, dnsVars, slept >>

\* Mutant of CheckNoRc: a missing pair of init scripts is not noticed.
CheckNoRc_FallsThrough ==
    /\ pc = "check_no_rc"
    /\ pc' = "check_both_rc"
    /\ UNCHANGED << argv0, localVars, devVars, dirVars, ret, i, loadVars, checks,
                    sysctls, execs, sanity, map, dnsVars, slept, exitCode, returnedAt >>

\* lines 269-272
CheckNoRc ==
    /\ pc = "check_no_rc"
    /\ IF ~has_platform_bpfloader_rc /\ ~has_platform_netbpfload_rc
       THEN Return(271, 1)
       ELSE pc' = "check_both_rc" /\ NoReturn
    /\ UNCHANGED << argv0, localVars, devVars, dirVars, ret, i, loadVars, checks,
                    sysctls, execs, sanity, map, dnsVars, slept >>

\* Mutant of CheckBothRc: a doubled pair of init scripts is not noticed.
CheckBothRc_FallsThrough ==
    /\ pc = "check_both_rc"
    /\ pc' = "log_apex_version"
    /\ UNCHANGED << argv0, localVars, devVars, dirVars, ret, i, loadVars, checks,
                    sysctls, execs, sanity, map, dnsVars, slept, exitCode, returnedAt >>

\* lines 274-277
CheckBothRc ==
    /\ pc = "check_both_rc"
    /\ IF has_platform_bpfloader_rc /\ has_platform_netbpfload_rc
       THEN Return(276, 1)
       ELSE pc' = "log_apex_version" /\ NoReturn
    /\ UNCHANGED << argv0, localVars, devVars, dirVars, ret, i, loadVars, checks,
                    sysctls, execs, sanity, map, dnsVars, slept >>

\* line 279: logTetheringApexVersion() only reads /proc/mounts and logs; its
\* return value is dropped
LogApexVersion ==
    /\ pc = "log_apex_version"
    /\ pc' = "legacy_exec"
    /\ UNCHANGED << argv0, localVars, devVars, dirVars, ret, i, loadVars, checks,
                    sysctls, execs, sanity, map, dnsVars, slept, exitCode, returnedAt >>

\* Mutant of LegacyExec: the legacy init layout is not handed to bpfloader.
LegacyExec_Proceeds ==
    /\ pc = "legacy_exec"
    /\ pc' = "gate_T"
    /\ UNCHANGED << argv0, localVars, devVars, dirVars, ret, i, loadVars, checks,
                    sysctls, execs, sanity, map, dnsVars, slept, exitCode, returnedAt >>

\* lines 281-286
LegacyExec ==
    /\ pc = "legacy_exec"
    /\ IF is_mainline /\ has_platform_bpfloader_rc /\ ~has_platform_netbpfload_rc
       THEN \E e \in ExecErrnos : Execve(286, platformBpfLoader, e)
       ELSE pc' = "gate_T" /\ UNCHANGED execs
    /\ UNCHANGED << argv0, localVars, devVars, dirVars, ret, i, loadVars, checks,
                    sysctls, sanity, map, dnsVars, slept, exitCode, returnedAt >>

isAtLeastT == device_api_level >= ANDROID_API_T
isAtLeastU == device_api_level >= ANDROID_API_U
isAtLeastV == device_api_level >= ANDROID_API_V

\* Mutant of KernelRequirement: the requirement is applied whatever the device
\* API level.
KernelRequirement_IgnoresApiLevel(here, next, name, applies, v, fatal) ==
    /\ pc = here
    /\ LET below == ~isAtLeastKernelVersion(kver, v[1], v[2], v[3])
       IN  /\ checks' = Append(checks, [check |-> name, logged |-> below])
           /\ IF below /\ fatal
              THEN Return(301, 1)
              ELSE pc' = next /\ NoReturn
    /\ UNCHANGED << argv0, localVars, devVars, dirVars, ret, i, loadVars,
                    sysctls, execs, sanity, map, dnsVars, slept >>

\* One kernel-version requirement of lines 291-302: when it applies to the
\* device API level and the kernel is older than version v, warn, and return 1
\* if the requirement is fatal.
KernelRequirement(here, next, name, applies, v, fatal) ==
    /\ pc = here
    /\ LET below == applies /\ ~isAtLeastKernelVersion(kver, v[1], v[2], v[3])
       IN  /\ checks' = Append(checks, [check |-> name, logged |-> below])
           /\ IF below /\ fatal
              THEN Return(301, 1)
              ELSE pc' = next /\ NoReturn
    /\ UNCHANGED << argv0, localVars, devVars, dirVars, ret, i, loadVars,
                    sysctls, execs, sanity, map, dnsVars, slept >>

\* lines 291-293
GateT == KernelRequirement("gate_T", "gate_U", "T", isAtLeastT, << 4, 9, 0 >>, FALSE)

\* lines 295-297
GateU == KernelRequirement("gate_U", "gate_V", "U", isAtLeastU, << 4, 14, 0 >>, FALSE)

\* lines 299-302
GateV == KernelRequirement("gate_V", "gate_x86", "V", isAtLeastV, << 4, 19, 0 >>, TRUE)

\* Mutant of GateX86: the JIT is switched on before the x86 check is made.
GateX86_TunesJitFirst ==
    /\ pc = "gate_x86"
    /\ sysctls' = Append(sysctls, "/proc/sys/net/core/bpf_jit_enable")
    /\ \E isX86 \in BOOLEAN, isKernel64Bit \in BOOLEAN :
          /\ x86' = IF isAtLeastV THEN ToString(isX86) ELSE x86
          /\ k64' = IF isAtLeastV /\ isX86 THEN ToString(isKernel64Bit) ELSE k64
          /\ LET bad == isAtLeastV /\ isX86 /\ ~isKernel64Bit
             IN  /\ checks' = Append(checks, [check |-> "x86", logged |-> bad])
                 /\ IF bad THEN Return(306, 1)
                    ELSE pc' = "gate_userspace" /\ NoReturn
    /\ UNCHANGED << argv0, localVars, us32, buildType, dirVars, ret, i, loadVars,
                    execs, sanity, map, dnsVars, slept >>

\* lines 304-307: isX86() is asked only at V+, isKernel64Bit() only on x86
GateX86 ==
    /\ pc = "gate_x86"
    /\ \E isX86 \in BOOLEAN, isKernel64Bit \in BOOLEAN :
          /\ x86' = IF isAtLeastV THEN ToString(isX86) ELSE x86
          /\ k64' = IF isAtLeastV /\ isX86 THEN ToString(isKernel64Bit) ELSE k64
          /\ LET bad == isAtLeastV /\ isX86 /\ ~isKernel64Bit
             IN  /\ checks' = Append(checks, [check |-> "x86", logged |-> bad])
                 /\ IF bad THEN Return(306, 1)
                    ELSE pc' = "gate_userspace" /\ NoReturn
    /\ UNCHANGED << argv0, localVars, us32, buildType, dirVars, ret, i, loadVars,
                    sysctls, execs, sanity, map, dnsVars, slept >>

\* Mutant of GateUserspace: 64-bit userspace is required only from API level V.
GateUserspace_OnlyAtV ==
    /\ pc = "gate_userspace"
    /\ \E isUserspace32bit \in BOOLEAN :
          /\ us32' = ToString(isUserspace32bit)
          /\ LET bad == /\ isAtLeastV
                        /\ isUserspace32bit /\ isAtLeastKernelVersion(kver, 6, 2, 0)
             IN  /\ checks' = Append(checks, [check |-> "userspace", logged |-> bad])
                 /\ IF bad THEN Return(330, 1)
                    ELSE pc' = "gate_build_type" /\ NoReturn
    /\ UNCHANGED << argv0, localVars, x86, k64, buildType, dirVars, ret, i,
                    loadVars, sysctls, execs, sanity, map, dnsVars, slept >>

\* lines 309-331
GateUserspace ==
    /\ pc = "gate_userspace"
    /\ \E isUserspace32bit \in BOOLEAN :
          /\ us32' = ToString(isUserspace32bit)
          /\ LET bad == isUserspace32bit /\ isAtLeastKernelVersion(kver, 6, 2, 0)
             IN  /\ checks' = Append(checks, [check |-> "userspace", logged |-> bad])
                 /\ IF bad THEN Return(330, 1)
                    ELSE pc' = "gate_build_type" /\ NoReturn
    /\ UNCHANGED << argv0, localVars, x86, k64, buildType, dirVars, ret, i,
                    loadVars, sysctls, execs, sanity, map, dnsVars, slept >>

\* Mutant of GateBuildType: the "user" build type is not among the known ones.
GateBuildType_RejectsUser ==
    /\ pc = "gate_build_type"
    /\ \E bt \in BuildTypes :
          /\ buildType' = bt
          /\ LET isEng == bt = "eng"
                 isUserdebug == bt = "userdebug"
                 bad == ~isEng /\ ~isUserdebug
             IN  /\ checks' = Append(checks, [check |-> "build_type", logged |-> bad])
                 /\ IF bad THEN Return(337, 1)
                    ELSE pc' = "sysctl_unprivileged_bpf_disabled" /\ NoReturn
    /\ UNCHANGED << argv0, localVars, x86, k64, us32, dirVars, ret, i, loadVars,
                    sysctls, execs, sanity, map, dnsVars, slept >>

\* lines 334-338
GateBuildType ==
    /\ pc = "gate_build_type"
    /\ \E bt \in BuildTypes :
          /\ buildType' = bt
          /\ LET isEng == bt = "eng"
                 isUser == bt = "user"
                 isUserdebug == bt = "userdebug"
                 bad == ~isEng /\ ~isUser /\ ~isUserdebug
             IN  /\ checks' = Append(checks, [check |-> "build_type", logged |-> bad])
                 /\ IF bad THEN Return(337, 1)
                    ELSE pc' = "sysctl_unprivileged_bpf_disabled" /\ NoReturn
    /\ UNCHANGED << argv0, localVars, x86, k64, us32, dirVars, ret, i, loadVars,
                    sysctls, execs, sanity, map, dnsVars, slept >>

\* Mutant of SysctlKnob: a failed write is fatal whatever the kernel version.
SysctlKnob_FatalOnAnyKernel(here, next, line, filename, v) ==
    /\ pc = here
    /\ IF isAtLeastU
       THEN \E w \in SysWrites :
               LET r == writeProcSysFile(SysctlValueLen, w)
               IN  /\ sysctls' = Append(sysctls, filename)
                   /\ ret' = r
                   /\ IF r # 0
                      THEN Return(line, 1)
                      ELSE pc' = next /\ NoReturn
       ELSE pc' = next /\ UNCHANGED << sysctls, ret, exitCode, returnedAt >>
    /\ UNCHANGED << argv0, localVars, devVars, dirVars, i, loadVars, checks,
                    execs, sanity, map, dnsVars, slept >>

\* Mutant of SysctlKnob: the knobs are written only from API level V.
SysctlKnob_OnlyAtV(here, next, line, filename, v) ==
    /\ pc = here
    /\ IF isAtLeastV
       THEN \E w \in SysWrites :
               LET r == writeProcSysFile(SysctlValueLen, w)
               IN  /\ sysctls' = Append(sysctls, filename)
                   /\ ret' = r
                   /\ IF r # 0 /\ isAtLeastKernelVersion(kver, v[1], v[2], v[3])
                      THEN Return(line, 1)
                      ELSE pc' = next /\ NoReturn
       ELSE pc' = next /\ UNCHANGED << sysctls, ret, exitCode, returnedAt >>
    /\ UNCHANGED << argv0, localVars, devVars, dirVars, i, loadVars, checks,
                    execs, sanity, map, dnsVars, slept >>

\* One knob of lines 340-362: inside `if (isAtLeastU)`, write the value and
\* return 1 when the write fails on a kernel of at least version v.
SysctlKnob(here, next, line, filename, v) ==
    /\ pc = here
    /\ IF isAtLeastU
       THEN \E w \in SysWrites :
               LET r == writeProcSysFile(SysctlValueLen, w)
               IN  /\ sysctls' = Append(sysctls, filename)
                   /\ ret' = r
                   /\ IF r # 0 /\ isAtLeastKernelVersion(kver, v[1], v[2], v[3])
                      THEN Return(line, 1)
                      ELSE pc' = next /\ NoReturn
       ELSE pc' = next /\ UNCHANGED << sysctls, ret, exitCode, returnedAt >>
    /\ UNCHANGED << argv0, localVars, devVars, dirVars, i, loadVars, checks,
                    execs, sanity, map, dnsVars, slept >>

\* lines 345-346
SysctlUnprivilegedBpf ==
    SysctlKnob("sysctl_unprivileged_bpf_disabled", "sysctl_bpf_jit_enable", 346,
               "/proc/sys/kernel/unprivileged_bpf_disabled", << 5, 13, 0 >>)

\* lines 354-355
SysctlJitEnable ==
    SysctlKnob("sysctl_bpf_jit_enable", "sysctl_bpf_jit_kallsyms", 355,
               "/proc/sys/net/core/bpf_jit_enable", << 4, 14, 0 >>)

\* lines 360-361
SysctlJitKallsyms ==
    SysctlKnob("sysctl_bpf_jit_kallsyms", "create_dirs", 361,
               "/proc/sys/net/core/bpf_jit_kallsyms", << 4, 14, 0 >>)

\* One call `if (createSysFsBpfSubDir(prefix)) return 1;`
CreateDir(line, prefix, next) ==
    \E e \in {0} \cup MkdirErrnos :
       LET r == createSysFsBpfSubDir(fs, umask, prefix, e)
       IN  /\ mkdirs' = IF prefix # "" THEN Append(mkdirs, prefix) ELSE mkdirs
           /\ fs' = r.fs
           /\ umask' = r.umask
           /\ ret' = r.ret
           /\ IF r.ret # 0 THEN Return(line, 1)
              ELSE pc' = next /\ NoReturn

\* Mutant of CreatePinDirs: after the loop main() goes straight to the sweep,
\* without the "loader" directory.
CreatePinDirs_SkipsLoaderDir ==
    /\ pc = "create_dirs"
    /\ IF i < Len(locations)
       THEN /\ i' = i + 1
            /\ CreateDir(369, locations[i + 1].prefix, "create_dirs")
       ELSE /\ i' = 0
            /\ pc' = "sweep"
            /\ UNCHANGED << dirVars, ret, exitCode, returnedAt >>
    /\ UNCHANGED << argv0, localVars, devVars, loadVars, checks, sysctls, execs,
                    sanity, map, dnsVars, slept >>

\* lines 368-370: the loop over locations[]
CreatePinDirs ==
    /\ pc = "create_dirs"
    /\ IF i < Len(locations)
       THEN /\ i' = i + 1
            /\ CreateDir(369, locations[i + 1].prefix, "create_dirs")
       ELSE /\ i' = 0
            /\ pc' = "create_loader_dir"
            /\ UNCHANGED << dirVars, ret, exitCode, returnedAt >>
    /\ UNCHANGED << argv0, localVars, devVars, loadVars, checks, sysctls, execs,
                    sanity, map, dnsVars, slept >>

\* line 377
CreateLoaderDir ==
    /\ pc = "create_loader_dir"
    /\ CreateDir(377, LoaderDir, "sweep")
    /\ UNCHANGED << argv0, localVars, devVars, i, loadVars, checks, sysctls,
                    execs, sanity, map, dnsVars, slept >>

\* Mutant of LoadOpen: a directory that cannot be opened for a reason other
\* than ENOENT is reported as a failure of the Location.
LoadOpen_ReportsOpenFailure ==
    /\ pc = "sweep"
    /\ IF i < Len(locations)
       THEN /\ i' = i + 1
            /\ sweep' = Append(sweep, i + 1)
            /\ calls' = << >>
            /\ pos' = 0
            /\ UNCHANGED results
            /\ \E e \in OpendirErrnos, l \in Listings :
                  IF e = 0
                  THEN /\ dir' = [state |-> "open", errno |-> 0]
                       /\ listing' = l
                       /\ retVal' = 0
                       /\ pc' = "readdir"
                  ELSE /\ dir' = [state |-> "NULL", errno |-> e]
                       /\ listing' = << >>
                       /\ retVal' = IF e = ENOENT THEN 0 ELSE -e
                       /\ pc' = "load_return"
       ELSE /\ pc' = "sanity_check"
            /\ UNCHANGED << i, loadVars >>
    /\ UNCHANGED << argv0, localVars, devVars, dirVars, ret, checks, sysctls,
                    execs, sanity, map, dnsVars, slept, exitCode, returnedAt >>

\* lines 380-381 and 101-105: the loop over locations[] calls
\* loadAllElfObjects(location), which starts with opendir(location.dir)
LoadOpen ==
    /\ pc = "sweep"
    /\ IF i < Len(locations)
       THEN /\ i' = i + 1
            /\ sweep' = Append(sweep, i + 1)
            /\ retVal' = 0
            /\ calls' = << >>
            /\ pos' = 0
            /\ UNCHANGED results
            /\ \E e \in OpendirErrnos, l \in Listings :
                  IF e = 0
                  THEN /\ dir' = [state |-> "open", errno |-> 0]
                       /\ listing' = l
                       /\ pc' = "readdir"
                  ELSE /\ dir' = [state |-> "NULL", errno |-> e]
                       /\ listing' = << >>
                       /\ pc' = "load_return"
       ELSE /\ pc' = "sanity_check"
            /\ UNCHANGED << i, loadVars >>
    /\ UNCHANGED << argv0, localVars, devVars, dirVars, ret, checks, sysctls,
                    execs, sanity, map, dnsVars, slept, exitCode, returnedAt >>

\* Mutant of LoadEntry: every failure of loadProg() is kept, critical or not.
LoadEntry_KeepsAnyFailure ==
    /\ pc = "readdir"
    /\ pos < Len(listing)
    /\ pos' = pos + 1
    /\ LET s == listing[pos + 1]
       IN  IF ~EndsWith(s, ObjectSuffix)
           THEN UNCHANGED << calls, retVal >>
           ELSE \E o \in LoadOutcomes :
                   /\ calls' = Append(calls, [progPath |-> << locations[i].dir, s >>,
                                              ret |-> o.ret, critical |-> o.critical])
                   /\ retVal' = IF o.ret # 0 THEN o.ret ELSE retVal
    /\ UNCHANGED << pc, argv0, localVars, devVars, dirVars, ret, i, dir, listing,
                    sweep, results, checks, sysctls, execs, sanity, map, dnsVars, slept, exitCode,
                    returnedAt >>

\* lines 106-121: one readdir() and the loop body for the entry it yields
LoadEntry ==
    /\ pc = "readdir"
    /\ pos < Len(listing)
    /\ pos' = pos + 1
    /\ LET s == listing[pos + 1]
       IN  IF ~EndsWith(s, ObjectSuffix)
           THEN UNCHANGED << calls, retVal >>
           ELSE \E o \in LoadOutcomes :
                   /\ calls' = Append(calls, [progPath |-> << locations[i].dir, s >>,
                                              ret |-> o.ret, critical |-> o.critical])
                   /\ retVal' = IF o.ret # 0 /\ o.critical THEN o.ret ELSE retVal
    /\ UNCHANGED << pc, argv0, localVars, devVars, dirVars, ret, i, dir, listing,
                    sweep, results, checks, sysctls, execs, sanity, map, dnsVars, slept, exitCode, returnedAt >>

\* lines 106, 122: readdir() yields NULL, closedir()
LoadClose ==
    /\ pc = "readdir"
    /\ pos = Len(listing)
    /\ dir' = [dir EXCEPT !.state = "closed"]
    /\ pc' = "load_return"
    /\ UNCHANGED << argv0, localVars, devVars, dirVars, ret, i, listing, pos,
                    retVal, calls, sweep, results, checks, sysctls, execs, sanity, map, dnsVars, slept,
                    exitCode, returnedAt >>

\* Mutant of LoadReturn: main() drops the value loadAllElfObjects returns.
LoadReturn_IgnoresFailure ==
    /\ pc = "load_return"
    /\ ret' = retVal
    /\ results' = Append(results, retVal)
    /\ pc' = "sweep"
    /\ UNCHANGED << argv0, localVars, devVars, dirVars, i, dir, listing, pos,
                    retVal, calls, sweep, checks, sysctls, execs, sanity, map, dnsVars, slept,
                    exitCode, returnedAt >>

\* Mutant of LoadReturn: a failed Location makes main() return the general
\* failure code.
LoadReturn_ReturnsOne ==
    /\ pc = "load_return"
    /\ ret' = retVal
    /\ results' = Append(results, retVal)
    /\ IF retVal # 0
       THEN /\ slept' = slept + StallSeconds
            /\ Return(388, 1)
       ELSE /\ pc' = "sweep"
            /\ UNCHANGED << slept, exitCode, returnedAt >>
    /\ UNCHANGED << argv0, localVars, devVars, dirVars, i, dir, listing, pos,
                    retVal, calls, sweep, checks, sysctls, execs, sanity, map, dnsVars >>

\* lines 124 and 381-389: loadAllElfObjects returns retVal and main() tests it
LoadReturn ==
    /\ pc = "load_return"
    /\ ret' = retVal
    /\ results' = Append(results, retVal)
    /\ IF retVal # 0
       THEN /\ slept' = slept + StallSeconds
            /\ Return(388, 2)
       ELSE /\ pc' = "sweep"
            /\ UNCHANGED << slept, exitCode, returnedAt >>
    /\ UNCHANGED << argv0, localVars, devVars, dirVars, i, dir, listing, pos,
                    retVal, calls, sweep, checks, sysctls, execs, sanity, map, dnsVars >>

\* Mutant of SanityCheck: a failed map write is logged and main() goes on.
SanityCheck_GoesOn ==
    /\ pc = "sanity_check"
    /\ \E fd \in {-1, 3}, w \in {0, -1} :
          LET written == IF fd < 0 THEN -1 ELSE w
          IN  /\ map' = << fd >>
              /\ sanity' = IF written # 0 THEN "failed" ELSE "ok"
    /\ pc' = "final_exec"
    /\ UNCHANGED << argv0, localVars, devVars, dirVars, ret, i, loadVars, checks,
                    sysctls, execs, slept, exitCode, returnedAt, dnsVars >>

\* Mutant of SanityCheck: a failed map write is reported with the code of a
\* critical load failure.
SanityCheck_ReturnsTwo ==
    /\ pc = "sanity_check"
    /\ \E fd \in {-1, 3}, w \in {0, -1} :
          LET written == IF fd < 0 THEN -1 ELSE w
          IN  /\ map' = << fd >>
              /\ IF written # 0
                 THEN sanity' = "failed" /\ Return(398, 2)
                 ELSE sanity' = "ok" /\ pc' = "final_exec" /\ NoReturn
    /\ UNCHANGED << argv0, localVars, devVars, dirVars, ret, i, loadVars, checks,
                    sysctls, execs, slept, dnsVars >>

\* lines 392-399: createMap() answers a descriptor or -1, writeToMapEntry()
\* answers 0 or an error, and always an error on a descriptor of -1
SanityCheck ==
    /\ pc = "sanity_check"
    /\ \E fd \in {-1, 3}, w \in {0, -1} :
          LET written == IF fd < 0 THEN -1 ELSE w
          IN  /\ map' = << fd >>
              /\ IF written # 0
                 THEN sanity' = "failed" /\ Return(398, 1)
                 ELSE sanity' = "ok" /\ pc' = "final_exec" /\ NoReturn
    /\ UNCHANGED << argv0, localVars, devVars, dirVars, ret, i, loadVars, checks,
                    sysctls, execs, slept, dnsVars >>

\* lines 401-404
FinalExec ==
    /\ pc = "final_exec"
    /\ \E e \in ExecErrnos : Execve(404, platformBpfLoader, e)
    /\ UNCHANGED << argv0, localVars, devVars, dirVars, ret, i, loadVars, checks,
                    sysctls, sanity, map, dnsVars, slept, exitCode, returnedAt >>

Next ==
    \/ ReadInvocation
    \/ ProbeBpfloaderRc
    \/ ProbeNetbpfloadRc
    \/ LogStartup
    \/ CheckVariant
    \/ PlatformExec
    \/ ExecFailed
    \/ CheckNoRc
    \/ CheckBothRc
    \/ LogApexVersion
    \/ LegacyExec
    \/ GateT
    \/ GateU
    \/ GateV
    \/ GateX86
    \/ GateUserspace
    \/ GateBuildType
    \/ SysctlUnprivilegedBpf
    \/ SysctlJitEnable
    \/ SysctlJitKallsyms
    \/ CreatePinDirs
    \/ CreateLoaderDir
    \/ LoadOpen
    \/ LoadEntry
    \/ LoadClose
    \/ LoadReturn
    \/ SanityCheck
    \/ FinalExec

Spec == Init /\ [][Next]_vars

----------------------------------------------------------------------------
(* Calls of the ConnectivitySettingsUtils methods *)

mainVars == << pc, argv0, localVars, devVars, dirVars, ret, i, loadVars, checks,
               sysctls, execs, sanity, map, slept, exitCode, returnedAt >>

\* getPrivateDnsMode(context)
GetPrivateDnsMode ==
    /\ LET r == getPrivateDnsMode(settings)
       IN  /\ returned' = r.value
           /\ thrown' = r.thrown
    /\ call' = [name |-> "getPrivateDnsMode", arg |-> 0]
    /\ UNCHANGED << settings, mainVars >>

\* setPrivateDnsMode(context, mode), mode any int
SetPrivateDnsMode ==
    /\ \E mode \in ModeArgs :
          LET r == setPrivateDnsMode(settings, mode)
          IN  /\ settings' = r.settings
              /\ thrown' = r.thrown
              /\ call' = [name |-> "setPrivateDnsMode", arg |-> mode]
    /\ returned' = << >>
    /\ UNCHANGED mainVars

\* Another writer of Settings.Global (`settings put global <name> <value>`,
\* `settings delete global <name>`) sets or unsets one of the two settings
PutSetting ==
    /\ \E name \in SettingKeys, value \in StringRefs :
          settings' = putString(settings, name, value)
    /\ call' = [name |-> "putString", arg |-> 0]
    /\ returned' = << >>
    /\ thrown' = "none"
    /\ UNCHANGED mainVars

\* The settings methods run in a system process; main() is not running
SettingsInit ==
    /\ Init
    /\ argv0 = apexNetBpfLoad
    /\ umask = 0
    /\ fs = << >>

SettingsNext ==
    \/ GetPrivateDnsMode
    \/ SetPrivateDnsMode
    \/ PutSetting

SettingsSpec == SettingsInit /\ [][SettingsNext]_vars

----------------------------------------------------------------------------
(* Vocabulary of the properties *)

\* Positions of main() up to and including its last routing statement
ResolverPcs == { "start", "probe_bpfloader_rc", "probe_netbpfload_rc", "log_startup",
                 "check_variant", "platform_exec", "check_no_rc", "check_both_rc",
                 "log_apex_version", "legacy_exec" }

\* Both init-script probes have returned
Probed == pc \notin { "start", "probe_bpfloader_rc", "probe_netbpfload_rc", "aborted" }

NoGateCheck == checks = << >>
NoSysctlWrite == sysctls = << >>
NoPinDir == mkdirs = << >>
NoObjectLoad == sweep = << >> /\ calls = << >> /\ results = << >>
NoSanityCheck == sanity = "none"
NoExec == execs = << >>

ExecOf(line, target) ==
    [line |-> line, path |-> target, argv |-> << target >>, envp |-> "envp"]

\* The routing decision a state shows main() to have taken
Choice ==
    IF returnedAt = 258 THEN "fail-unknown"
    ELSE IF returnedAt \in {271, 276} THEN "fail-conflict"
    ELSE IF execs # << >> /\ execs[1].line = 264 THEN "delegate-module"
    ELSE IF execs # << >> /\ execs[1].line = 286 THEN "delegate-legacy"
    ELSE IF pc \notin ResolverPcs \cup {"aborted"} THEN "proceed"
    ELSE "undecided"

\* The routing table: argv[0] is the platform path (p), is the module path
\* (m), the legacy init script is present (l), the new one is present (n)
Routing(p, m, l, n) ==
    IF p THEN "delegate-module"
    ELSE IF ~m THEN "fail-unknown"
    ELSE IF l = n THEN "fail-conflict"
    ELSE IF l THEN "delegate-legacy"
    ELSE "proceed"

----------------------------------------------------------------------------
(* C1 *)

\* C1 as stated: whatever argv[0] and the init scripts are, the path main()
\* takes before the capability gate is one of fail-unknown, fail-conflict,
\* delegate-legacy and proceed.
C1_FourOutcomes ==
    pc \notin ResolverPcs \cup {"aborted"} =>
        Choice \in { "fail-unknown", "fail-conflict", "delegate-legacy", "proceed" }

\* C1, amended: once main() has left its routing statements, the path it took
\* is one of fail-unknown, fail-conflict, delegate-legacy, proceed and
\* delegate-module (the platform copy re-executing the module copy), and it is
\* the value of the routing table at (argv[0] is the platform path, argv[0] is
\* the module path, legacy script present, new script present).
C1_RoutingIsAFunction ==
    pc \notin ResolverPcs \cup {"aborted"} =>
        /\ Choice \in { "fail-unknown", "fail-conflict", "delegate-legacy",
                        "proceed", "delegate-module" }
        /\ Choice = Routing(argv0 = platformNetBpfLoad, argv0 = apexNetBpfLoad,
                            has_platform_bpfloader_rc, has_platform_netbpfload_rc)

\* A platform invocation on an image holding both init scripts was replaced by
\* the module copy.
C1_Witness ==
    /\ pc = "replaced"
    /\ argv0 = platformNetBpfLoad
    /\ has_platform_bpfloader_rc /\ has_platform_netbpfload_rc
    /\ Choice = "delegate-module"

----------------------------------------------------------------------------
(* C2 *)

\* C2: when argv[0] is neither known path, and when argv[0] is the module path
\* and the init scripts are both present or both absent, main() never leaves
\* its routing statements except by returning 1, and no process replacement,
\* sysctl write, pin-directory creation, object load, gate check or sanity
\* check is attempted.  (With an unknown argv[0] the process can also be
\* killed earlier, by abort() in exists(); nothing is attempted then either.)
C2_FatalWithoutEffects ==
    LET unknown   == argv0 # platformNetBpfLoad /\ argv0 # apexNetBpfLoad
        malformed == /\ argv0 = apexNetBpfLoad
                     /\ Probed
                     /\ has_platform_bpfloader_rc = has_platform_netbpfload_rc
    IN  (unknown \/ malformed) =>
            /\ NoExec /\ NoSysctlWrite /\ NoPinDir /\ NoObjectLoad
            /\ NoGateCheck /\ NoSanityCheck
            /\ pc \in ResolverPcs \cup {"returned", "aborted"}
            /\ pc = "returned" => exitCode = << 1 >> /\ slept = 0

\* The module copy, on an image holding both init scripts, returned 1.
C2_Witness ==
    /\ pc = "returned"
    /\ argv0 = apexNetBpfLoad
    /\ has_platform_bpfloader_rc /\ has_platform_netbpfload_rc
    /\ exitCode = << 1 >>

----------------------------------------------------------------------------
(* C3 *)

\* C3: in a platform invocation the one thing attempted is a single
\* execve(apexNetBpfLoad, {apexNetBpfLoad, NULL}, envp); main() gets past that
\* statement only by the image being replaced or by returning 1 after the call
\* failed; no gate check, sysctl write, pin-directory creation, object load or
\* sanity check is performed.
C3_PlatformOnlyReExecutes ==
    argv0 = platformNetBpfLoad =>
        /\ NoGateCheck /\ NoSysctlWrite /\ NoPinDir /\ NoObjectLoad /\ NoSanityCheck
        /\ execs \in { << >>, << ExecOf(264, apexNetBpfLoad) >> }
        /\ pc \in { "start", "probe_bpfloader_rc", "probe_netbpfload_rc", "log_startup",
                    "check_variant", "platform_exec", "aborted",
                    "replaced", "exec_failed", "returned" }
        /\ pc \in { "replaced", "exec_failed", "returned" } =>
               execs = << ExecOf(264, apexNetBpfLoad) >>
        /\ pc = "returned" => exitCode = << 1 >> /\ returnedAt = 266

\* A platform invocation whose execve() failed returned 1.
C3_Witness ==
    /\ argv0 = platformNetBpfLoad
    /\ pc = "returned"
    /\ execs = << ExecOf(264, apexNetBpfLoad) >>
    /\ exitCode = << 1 >>

----------------------------------------------------------------------------
(* C4 *)

\* C4 as stated: whatever argv[0] is, once the legacy and the new init script
\* are found both present or both absent no execve() is attempted and the run
\* can end only by returning a non-zero exit code.
C4_MalformedLayoutNeverExecs ==
    (Probed /\ has_platform_bpfloader_rc = has_platform_netbpfload_rc) =>
        /\ NoExec
        /\ pc \in {"returned", "replaced"} =>
               pc = "returned" /\ exitCode # << 0 >>

\* C4, amended: in an invocation that is not a platform invocation, once the
\* two init scripts are found both present or both absent no execve() is
\* attempted and main() leaves its routing statements only by returning 1; a
\* platform invocation gets past line 261 only through its execve() of the
\* module copy, whatever the init scripts.
C4_MalformedLayoutFatalUnlessPlatform ==
    /\ ( /\ Probed
         /\ argv0 # platformNetBpfLoad
         /\ has_platform_bpfloader_rc = has_platform_netbpfload_rc ) =>
            /\ NoExec
            /\ pc \in ResolverPcs \cup {"returned"}
            /\ pc = "returned" => exitCode = << 1 >>
    /\ ( /\ Probed
         /\ argv0 = platformNetBpfLoad
         /\ pc \notin {"log_startup", "check_variant", "platform_exec"} ) =>
            /\ execs = << ExecOf(264, apexNetBpfLoad) >>
            /\ pc \in {"replaced", "exec_failed", "returned"}

\* A platform invocation on an image holding neither init script was replaced
\* by the module copy.
C4_Witness ==
    /\ argv0 = platformNetBpfLoad
    /\ ~has_platform_bpfloader_rc /\ ~has_platform_netbpfload_rc
    /\ Probed
    /\ pc = "replaced"
    /\ execs = << ExecOf(264, apexNetBpfLoad) >>

----------------------------------------------------------------------------
(* C5 *)

\* C5: when argv[0] is the module path, the legacy init script is present and
\* the new one is absent, the one thing attempted is
\* execve(platformBpfLoader, {platformBpfLoader, NULL}, envp); main() gets past
\* line 281 only by being replaced or by returning 1 after the call failed;
\* no gate check, sysctl write, pin-directory creation, object load or sanity
\* check is performed.
C5_LegacyLayoutDelegates ==
    ( /\ argv0 = apexNetBpfLoad
      /\ Probed
      /\ has_platform_bpfloader_rc /\ ~has_platform_netbpfload_rc ) =>
        /\ NoGateCheck /\ NoSysctlWrite /\ NoPinDir /\ NoObjectLoad /\ NoSanityCheck
        /\ execs \in { << >>, << ExecOf(286, platformBpfLoader) >> }
        /\ pc \in ResolverPcs \cup {"replaced", "exec_failed", "returned"}
        /\ pc \in {"replaced", "exec_failed", "returned"} =>
               execs = << ExecOf(286, platformBpfLoader) >>
        /\ pc = "returned" => exitCode = << 1 >> /\ returnedAt = 288

\* The module copy, on an image with the legacy init layout, was replaced by
\* bpfloader.
C5_Witness ==
    /\ argv0 = apexNetBpfLoad
    /\ has_platform_bpfloader_rc /\ ~has_platform_netbpfload_rc
    /\ pc = "replaced"
    /\ execs = << ExecOf(286, platformBpfLoader) >>

----------------------------------------------------------------------------
(* C6 *)

FatalChecks == {"V", "x86", "userspace", "build_type"}

\* Every predicate of the capability gate was evaluated and none was fatal.
GatePassed ==
    /\ Len(checks) = 6
    /\ \A k \in DOMAIN checks : checks[k].check \in FatalChecks => ~checks[k].logged

\* No sysctl write made main() return, and on U+ all three were attempted.
SysctlPassed ==
    /\ returnedAt \notin {346, 355, 361}
    /\ isAtLeastU => Len(sysctls) = 3

\* createSysFsBpfSubDir was called for every prefix and every directory exists.
PinDirsCreated ==
    /\ returnedAt \notin {369, 377}
    /\ mkdirs = PinPrefixes
    /\ PinDirs \subseteq DOMAIN fs

\* loadAllElfObjects returned 0 for every Location.
SweepPassed ==
    /\ Len(results) = Len(locations)
    /\ \A k \in DOMAIN results : results[k] = 0

StagesPassed == GatePassed /\ SysctlPassed /\ PinDirsCreated /\ SweepPassed

FinalExecAttempted == \E k \in DOMAIN execs : execs[k].line = 404

Ended == pc \in {"returned", "replaced"}

\* C6 as stated: a run that ended executed the final execve() if the gate, the
\* sysctl tuner, pin-directory creation and the sweep all succeeded, and only
\* then; a final execve() that fails makes main() return 1.
C6_HandoffIffFourStages ==
    /\ (Ended /\ StagesPassed) => FinalExecAttempted
    /\ FinalExecAttempted => StagesPassed
    /\ (pc = "returned" /\ FinalExecAttempted) => exitCode = << 1 >>

\* C6, amended: a run that ended executed the final execve() if the gate, the
\* sysctl tuner, pin-directory creation, the sweep and the sanity-check map
\* write all succeeded, and only then; when the four stages succeeded and the
\* map write failed main() returned 1 without the final execve(); a final
\* execve() that fails makes main() return 1.
C6_HandoffIffStagesAndSanity ==
    /\ (Ended /\ StagesPassed /\ sanity = "ok") => FinalExecAttempted
    /\ (Ended /\ StagesPassed /\ sanity # "ok") =>
           /\ sanity = "failed" /\ ~FinalExecAttempted
           /\ pc = "returned" /\ exitCode = << 1 >>
    /\ FinalExecAttempted =>
           /\ StagesPassed /\ sanity = "ok"
           /\ execs = << ExecOf(404, platformBpfLoader) >>
    /\ (pc = "returned" /\ FinalExecAttempted) =>
           exitCode = << 1 >> /\ returnedAt = 406

\* Every stage and the sanity check succeeded and the final execve() replaced
\* the image.
C6_Witness ==
    /\ pc = "replaced"
    /\ StagesPassed /\ sanity = "ok"
    /\ execs = << ExecOf(404, platformBpfLoader) >>

----------------------------------------------------------------------------
(* C7 *)

\* Mode bits 01777
Mode01777 == 1 * (8 ^ 3) + 7 * (8 ^ 2) + 7 * 8 + 7

\* createSysFsBpfSubDir called for the n-th and every later pin prefix, in
\* call order, on filesystem f under umask um, mkdir() never being refused
RECURSIVE PinPass(_, _, _)
PinPass(f, um, n) ==
    IF n > Len(PinPrefixes) THEN [rets |-> << >>, fs |-> f, umask |-> um]
    ELSE LET r    == createSysFsBpfSubDir(f, um, PinPrefixes[n], 0)
             rest == PinPass(r.fs, r.umask, n + 1)
         IN  [rets |-> << r.ret >> \o rest.rets, fs |-> rest.fs, umask |-> rest.umask]

\* C7: from the filesystem of any reachable state (the empty one and every
\* set of directories an earlier run left), one pass of createSysFsBpfSubDir
\* over the Location prefixes and "loader" leaves exactly those directories,
\* each with mode 01777; a second pass leaves the same filesystem and returns
\* 0 for every prefix.  In the run itself a pass that completed left exactly
\* those directories with mode 01777, and when a call made main() return, the
\* directory it was called for does not exist: a directory that is already
\* there never makes this stage fail.
C7_PinDirCreationIdempotent ==
    LET once  == PinPass(fs, umask, 1)
        twice == PinPass(once.fs, once.umask, 1)
    IN  /\ DOMAIN once.fs = PinDirs
        /\ \A d \in PinDirs : once.fs[d] = Mode01777
        /\ twice.fs = once.fs
        /\ Len(twice.rets) = Len(PinPrefixes)
        /\ \A k \in DOMAIN twice.rets : twice.rets[k] = 0
        /\ (mkdirs = PinPrefixes /\ returnedAt \notin {369, 377}) =>
               /\ DOMAIN fs = PinDirs
               /\ \A d \in PinDirs : fs[d] = Mode01777
        /\ returnedAt \in {369, 377} =>
               /\ mkdirs # << >>
               /\ mkdirs[Len(mkdirs)] \notin DOMAIN fs
               /\ ret < 0

\* The first call of a run that found every directory already there returned 0.
C7_Witness ==
    /\ pc = "create_dirs"
    /\ mkdirs = << PinPrefixes[1] >>
    /\ DOMAIN fs = PinDirs
    /\ ret = 0
    /\ returnedAt = 0

----------------------------------------------------------------------------
(* C8 *)

\* The name ends in ".o"
IsObjectFile(s) == Len(s) >= 2 /\ s[Len(s) - 1] = "." /\ s[Len(s)] = "o"

\* loadProg() reported a critical failure
CriticalFailure(c) == c.ret # 0 /\ c.critical

\* C8: inside loadAllElfObjects, the calls of loadProg() made so far are, in
\* order and once each, the entries read so far whose name ends in ".o", each
\* with the path location.dir + name; the function returns only after the
\* last entry was read; and its result is non-zero exactly when one of the
\* calls reported a critical failure.
C8_EveryObjectFileLoadedOnce ==
    pc \in {"readdir", "load_return"} =>
        LET objs == SelectSeq(SubSeq(listing, 1, pos), IsObjectFile)
        IN  /\ Len(calls) = Len(objs)
            /\ \A k \in DOMAIN calls :
                  calls[k].progPath = << locations[sweep[Len(sweep)]].dir, objs[k] >>
            /\ (retVal # 0) <=> (\E k \in DOMAIN calls : CriticalFailure(calls[k]))
            /\ pc = "load_return" => pos = Len(listing)

\* A Location whose first object file failed critically and whose second one
\* loaded: both were attempted and the result is the failure.
C8_Witness ==
    /\ pc = "load_return"
    /\ Len(calls) = 2
    /\ CriticalFailure(calls[1])
    /\ calls[2].ret = 0
    /\ retVal # 0

----------------------------------------------------------------------------
(* C9 *)

\* C9: when opendir() of a Location fails, with ENOENT or with any other
\* errno, loadAllElfObjects returns 0 without a call of loadProg(); main() then
\* goes on with the sweep, which opens the next Location if there is one and
\* moves to the sanity check if there is none.
C9_UnopenableLocationSkipped ==
    /\ [](( pc = "load_return" /\ dir.state = "NULL" ) =>
             /\ dir.errno # 0
             /\ retVal = 0
             /\ calls = << >>)
    /\ [][( pc = "load_return" /\ dir.state = "NULL" ) =>
             /\ pc' = "sweep"
             /\ results' = Append(results, 0)
             /\ calls' = << >>
             /\ exitCode' = << >> /\ slept' = slept]_vars
    /\ [][pc = "sweep" =>
             IF Len(sweep) < Len(locations)
             THEN sweep' = Append(sweep, Len(sweep) + 1)
             ELSE pc' = "sanity_check" /\ sweep' = sweep]_vars

\* A Location whose directory could not be opened for a reason other than
\* ENOENT was skipped and the sweep is about to open the next one.
C9_Witness ==
    /\ pc = "sweep"
    /\ dir = [state |-> "NULL", errno |-> 13]
    /\ results = << 0, 0 >>
    /\ sweep = << 1, 2 >>
    /\ exitCode = << >>

----------------------------------------------------------------------------
(* C10 *)

\* C10: the Locations are handed to loadAllElfObjects in table order, each
\* only after the one before it was read to its end and returned 0; every
\* call of loadProg() is for a file of the Location being read; the first
\* Location that returns non-zero is the last one: main() sleeps 20 seconds
\* and returns 2 without the sanity check and without an execve().
C10_SweepStopsAtFirstFailure ==
    /\ [](/\ sweep = [k \in 1..Len(sweep) |-> k]
          /\ Len(results) \in {Len(sweep) - 1, Len(sweep)}
          /\ \A k \in DOMAIN results :
                results[k] # 0 =>
                    /\ k = Len(results) /\ k = Len(sweep)
                    /\ pc = "returned" /\ returnedAt = 388
          /\ returnedAt = 388 =>
                /\ results # << >> /\ results[Len(results)] # 0
                /\ exitCode = << 2 >> /\ slept = 20
                /\ NoSanityCheck /\ NoExec)
    /\ [][sweep' # sweep =>
             /\ sweep' = Append(sweep, Len(sweep) + 1)
             /\ Len(results) = Len(sweep)
             /\ pos = Len(listing)]_vars
    /\ [][(calls' # calls /\ calls' # << >>) =>
             calls'[Len(calls')].progPath[1] = locations[sweep[Len(sweep)]].dir]_vars

\* The second Location failed critically after the first was swept: main()
\* slept and returned 2, and no later Location was opened.
C10_Witness ==
    /\ returnedAt = 388
    /\ sweep = << 1, 2 >>
    /\ results[1] = 0 /\ results[2] # 0
    /\ exitCode = << 2 >>
    /\ slept = 20

----------------------------------------------------------------------------
(* C11 *)

\* The return statements of main(), by the failure they report
ReturnLines == { 258, 271, 276, 266, 288, 301, 306, 330, 337, 346, 355, 361,
                 369, 377, 388, 398, 406 }

\* loadProg() reported a critical failure for a file of the Location last opened
CriticalFailureReported == \E k \in DOMAIN calls : CriticalFailure(calls[k])

\* C11: once loadProg() has reported a critical failure the run can only read
\* the Location to its end and return at line 388; main() returns 2 exactly
\* when it returns there, which is exactly when a critical failure was
\* reported, and it has then slept 20 seconds; every other return of main()
\* (unknown variant, malformed init layout, capability gate, sysctl write,
\* directory creation, sanity check, failed execve) returns 1 and has not
\* slept; main() never sleeps before it returns.
C11_ExitTwoIffCriticalLoadFailure ==
    /\ CriticalFailureReported =>
           \/ pc \in {"readdir", "load_return"}
           \/ pc = "returned" /\ returnedAt = 388
    /\ pc = "returned" =>
           /\ returnedAt \in ReturnLines
           /\ exitCode \in { << 1 >>, << 2 >> }
           /\ (exitCode = << 2 >>) <=> (returnedAt = 388)
           /\ (exitCode = << 2 >>) <=> CriticalFailureReported
           /\ (exitCode = << 2 >>) => slept = StallSeconds
           /\ (exitCode = << 1 >>) => slept = 0
           /\ \A k \in DOMAIN results :
                 results[k] # 0 => exitCode = << 2 >>
    /\ pc # "returned" => slept = 0 /\ exitCode = << >>

\* The first Location held an object file that failed critically: main()
\* slept 20 seconds and returned 2.
C11_Witness ==
    /\ pc = "returned"
    /\ sweep = << 1 >>
    /\ CriticalFailureReported
    /\ exitCode = << 2 >>
    /\ slept = StallSeconds

----------------------------------------------------------------------------
(* C12 *)

\* Kernel version kv is strictly older than version t (major, minor, sub)
KernelBelow(kv, t) ==
    \/ kv[1] < t[1]
    \/ kv[1] = t[1] /\ kv[2] < t[2]
    \/ kv[1] = t[1] /\ kv[2] = t[2] /\ kv[3] < t[3]

\* The requirement of API level `level`: kernel at least t
RequirementUnmet(level, t) == device_api_level >= level /\ KernelBelow(kver, t)

\* The log line of each kernel-version requirement, when it was evaluated
WarnedT == Len(checks) >= 1 /\ checks[1].logged
WarnedU == Len(checks) >= 2 /\ checks[2].logged
WarnedV == Len(checks) >= 3 /\ checks[3].logged

\* C12: the three kernel-version requirements are evaluated in the order T, U,
\* V; each one logs its warning exactly when the device API level is at least
\* its level and the kernel is strictly older than its version (4.9.0, 4.14.0,
\* 4.19.0); after the T and the U requirement the run goes on whatever they
\* found; after the V requirement main() returns 1 when it logged and goes on
\* when it did not.  So main() returns at line 301 exactly when the device API
\* level is at least V and the kernel is older than 4.19.0.
C12_KernelVersionGate ==
    /\ [](/\ Len(checks) >= 1 =>
                /\ checks[1].check = "T"
                /\ checks[1].logged = RequirementUnmet(ANDROID_API_T, << 4, 9, 0 >>)
          /\ Len(checks) >= 2 =>
                /\ checks[2].check = "U"
                /\ checks[2].logged = RequirementUnmet(ANDROID_API_U, << 4, 14, 0 >>)
          /\ Len(checks) >= 3 =>
                /\ checks[3].check = "V"
                /\ checks[3].logged = RequirementUnmet(ANDROID_API_V, << 4, 19, 0 >>)
          /\ (returnedAt = 301) <=>
                (Len(checks) >= 3 /\ RequirementUnmet(ANDROID_API_V, << 4, 19, 0 >>))
          /\ returnedAt = 301 =>
                pc = "returned" /\ exitCode = << 1 >> /\ Len(checks) = 3)
    /\ [][pc = "gate_T" => pc' = "gate_U" /\ exitCode' = << >>]_vars
    /\ [][pc = "gate_U" => pc' = "gate_V" /\ exitCode' = << >>]_vars
    /\ [][pc = "gate_V" =>
             IF RequirementUnmet(ANDROID_API_V, << 4, 19, 0 >>)
             THEN pc' = "returned" /\ exitCode' = << 1 >>
             ELSE pc' = "gate_x86" /\ exitCode' = << >>]_vars

\* A device of API level V on a kernel older than 4.9.0: the T and the U
\* requirement warned and the run went on, the V requirement made main()
\* return 1.
C12_Witness ==
    /\ device_api_level = ANDROID_API_V
    /\ KernelBelow(kver, << 4, 9, 0 >>)
    /\ WarnedT /\ WarnedU /\ WarnedV
    /\ returnedAt = 301
    /\ exitCode = << 1 >>

----------------------------------------------------------------------------
(* C13 *)

\* The write to /proc/sys made in this step failed with "not found"
NotFoundWrite(here) ==
    /\ pc = here
    /\ sysctls' # sysctls
    /\ ret' = -ENOENT

\* What C13 asks of a knob: a "not found" failure is passed over on a kernel
\* older than min, and makes main() return 1 at the knob's line otherwise,
\* with no pin directory created and no object loaded.
NotFoundTolerance(here, next, line, min) ==
    NotFoundWrite(here) =>
        IF KernelBelow(kver, min)
        THEN pc' = next /\ exitCode' = << >>
        ELSE /\ pc' = "returned" /\ exitCode' = << 1 >> /\ returnedAt' = line
             /\ mkdirs' = << >> /\ fs' = fs
             /\ sweep' = << >> /\ calls' = << >> /\ results' = << >>

\* C13: a write of unprivileged_bpf_disabled that fails with ENOENT is passed
\* over on a kernel older than 5.13.0 and makes main() return 1 on a kernel
\* of at least 5.13.0; the same holds of bpf_jit_enable and bpf_jit_kallsyms
\* with 4.14.0; a run that returned at one of the three knobs created no pin
\* directory and loaded no object.
C13_SysctlNotFoundTolerance ==
    /\ [][NotFoundTolerance("sysctl_unprivileged_bpf_disabled", "sysctl_bpf_jit_enable",
                            346, << 5, 13, 0 >>)]_vars
    /\ [][NotFoundTolerance("sysctl_bpf_jit_enable", "sysctl_bpf_jit_kallsyms",
                            355, << 4, 14, 0 >>)]_vars
    /\ [][NotFoundTolerance("sysctl_bpf_jit_kallsyms", "create_dirs",
                            361, << 4, 14, 0 >>)]_vars
    /\ [](returnedAt \in {346, 355, 361} =>
             /\ pc = "returned" /\ exitCode = << 1 >>
             /\ ret # 0
             /\ NoPinDir /\ NoObjectLoad /\ NoSanityCheck /\ NoExec)

\* On a kernel older than 4.14.0 the write of bpf_jit_kallsyms failed with
\* ENOENT and the run went on to create the pin directories.
C13_Witness ==
    /\ pc = "create_dirs"
    /\ KernelBelow(kver, << 4, 14, 0 >>)
    /\ Len(sysctls) = 3
    /\ ret = -ENOENT
    /\ mkdirs = << >>
    /\ exitCode = << >>

----------------------------------------------------------------------------
(* C14 *)

\* The scenario of C14, as far as the run has asked the device: argv[0] is the
\* module path, only the new init script is present, the kernel is at least
\* every version main() compares it with, the build type is "user", and no
\* object file failed critically.
Scenario ==
    /\ argv0 = apexNetBpfLoad
    /\ Probed
    /\ ~has_platform_bpfloader_rc /\ has_platform_netbpfload_rc
    /\ \A t \in { << 4, 9, 0 >>, << 4, 14, 0 >>, << 4, 19, 0 >>,
                  << 5, 13, 0 >>, << 6, 2, 0 >> } : ~KernelBelow(kver, t)
    /\ buildType \in {Unread, "user"}
    /\ ~CriticalFailureReported

\* The run reached the sanity check, and if the map write succeeded it made
\* the final execve() of the platform bpfloader.
SanityCheckThenHandoff ==
    /\ sanity # "none"
    /\ sanity = "ok" => execs = << ExecOf(404, platformBpfLoader) >>

\* C14 as stated: every run of the scenario that ended has reached the sanity
\* check, and has made the final execve() if the map write succeeded.
C14_ScenarioReachesSanityCheck ==
    (Ended /\ Scenario) => SanityCheckThenHandoff

\* The device is x86 with a 32-bit kernel at API level V or above
X86On32BitKernel == x86 = "TRUE" /\ k64 = "FALSE"

\* A write to /proc/sys failed; on a kernel of the scenario every failure is fatal
SysctlWriteFailed == returnedAt \in {346, 355, 361}

\* A directory could not be created under /sys/fs/bpf
PinDirCreationFailed == returnedAt \in {369, 377}

\* C14, amended: every run of the scenario that ended, on a device whose
\* userspace is 64-bit and which is not an x86 device with a 32-bit kernel at
\* API level V, in which no sysctl write and no pin-directory creation failed,
\* has reached the sanity check, and has made the final execve() if the map
\* write succeeded; main() returned only after a failed map write or a failed
\* final execve(), with 1.
C14_ScenarioWithHealthyDevice ==
    ( /\ Ended /\ Scenario
      /\ us32 # "TRUE"
      /\ ~X86On32BitKernel
      /\ ~SysctlWriteFailed
      /\ ~PinDirCreationFailed ) =>
        /\ SanityCheckThenHandoff
        /\ buildType = "user" /\ us32 = "FALSE"
        /\ StagesPassed
        /\ pc = "returned" => returnedAt \in {398, 406} /\ exitCode = << 1 >>

\* A run of the scenario in which an object file failed to load, not
\* critically, passed the sanity check and was replaced by the platform
\* bpfloader.
C14_Witness ==
    /\ pc = "replaced"
    /\ Scenario
    /\ buildType = "user"
    /\ \E k \in DOMAIN calls : calls[k].ret # 0 /\ ~calls[k].critical
    /\ sanity = "ok"
    /\ execs = << ExecOf(404, platformBpfLoader) >>

----------------------------------------------------------------------------
(* C15 *)

\* loadAllElfObjects or loadProg() has been called
LoadBegun == sweep # << >> \/ calls # << >> \/ results # << >>

\* C15: whenever a Location has been handed to loadAllElfObjects or loadProg()
\* has been called, createSysFsBpfSubDir has been called, once each and in
\* order, for the prefix of every Location and for "loader", none of the
\* calls made main() return, and every one of those directories exists; in a
\* run where one of the calls made main() return, no Location is ever opened
\* and loadProg() is never called.
C15_NoLoadBeforePinDirs ==
    /\ [](LoadBegun =>
             /\ mkdirs = PinPrefixes
             /\ PinDirs \subseteq DOMAIN fs
             /\ ~PinDirCreationFailed)
    /\ [](PinDirCreationFailed => ~LoadBegun /\ pc = "returned")
    /\ [][LoadBegun' /\ ~LoadBegun =>
             /\ pc = "sweep"
             /\ ret = 0
             /\ mkdirs = PinPrefixes /\ mkdirs' = mkdirs]_vars
    /\ [][PinDirCreationFailed => ~LoadBegun']_vars

\* The first object file is handed to loadProg(): all six directories exist.
C15_Witness ==
    /\ pc = "readdir"
    /\ sweep = << 1 >>
    /\ Len(calls) = 1
    /\ mkdirs = PinPrefixes
    /\ PinDirs \subseteq DOMAIN fs

----------------------------------------------------------------------------
(* C16 *)

\* C16: every call of createSysFsBpfSubDir, whether it returns 0 or an error,
\* leaves the process umask at the value it had before the call.
C16_UmaskRestoredAfterEveryCall ==
    [][mkdirs' # mkdirs => umask' = umask]_vars

----------------------------------------------------------------------------
(* C17 *)

\* The directory of the last createSysFsBpfSubDir call
LastPinDir == mkdirs[Len(mkdirs)]

\* C17: on the filesystem of every state of the pin-directory stage,
\* createSysFsBpfSubDir called for a directory that does not exist, mkdir()
\* failing with errno e other than EEXIST, returns -e, a negative value, and
\* creates nothing.  In the run, a call that leaves its directory missing
\* returns such a value and main() returns 1 in the same step; the calls made
\* are then an initial part of the call order, each prefix once, the failed
\* one last, and no Location was opened, no object loaded, no sanity check
\* run and no execve() attempted.
C17_MkdirFailureIsFatal ==
    /\ [](pc \in {"create_dirs", "create_loader_dir"} =>
             \A e \in MkdirErrnos, p \in PinDirs \ DOMAIN fs :
                LET r == createSysFsBpfSubDir(fs, umask, p, e)
                IN  r.ret = -e /\ r.ret < 0 /\ r.fs = fs)
    /\ [][(mkdirs' # mkdirs /\ mkdirs'[Len(mkdirs')] \notin DOMAIN fs') =>
             /\ \E e \in MkdirErrnos : ret' = -e
             /\ fs' = fs
             /\ pc' = "returned" /\ exitCode' = << 1 >>
             /\ returnedAt' \in {369, 377}]_vars
    /\ [](mkdirs = SubSeq(PinPrefixes, 1, Len(mkdirs)))
    /\ [](PinDirCreationFailed =>
             /\ pc = "returned" /\ exitCode = << 1 >> /\ slept = 0
             /\ ret < 0
             /\ LastPinDir \notin DOMAIN fs
             /\ NoObjectLoad /\ NoSanityCheck /\ NoExec)
    /\ [][PinDirCreationFailed => mkdirs' = mkdirs /\ fs' = fs]_vars

\* The second directory could not be created for lack of space: main()
\* returned 1 after two calls, with the first directory in place.
C17_Witness ==
    /\ returnedAt = 369
    /\ exitCode = << 1 >>
    /\ mkdirs = SubSeq(PinPrefixes, 1, 2)
    /\ DOMAIN fs = { PinPrefixes[1] }
    /\ ret = -28

----------------------------------------------------------------------------
(* C18 *)

\* createMap() returned no descriptor
MapNotCreated == map = << -1 >>

\* C18: the sanity check map is created and written only after
\* loadAllElfObjects returned 0 for every Location; a write into a map that
\* could not be created fails; and when the write failed, main() has returned
\* 1 at line 398, without sleeping and without any execve().
C18_SanityFailureIsFatal ==
    /\ (sanity # "none" \/ map # << >>) =>
           /\ SweepPassed
           /\ sweep = [k \in 1..Len(locations) |-> k]
           /\ ~CriticalFailureReported
           /\ sanity # "none" /\ map # << >>
    /\ MapNotCreated => sanity = "failed"
    /\ sanity = "failed" =>
           /\ pc = "returned"
           /\ exitCode = << 1 >> /\ returnedAt = 398
           /\ slept = 0
           /\ NoExec
    /\ FinalExecAttempted => sanity = "ok" /\ ~MapNotCreated

\* The map could not be created after a clean sweep: main() returned 1 and the
\* platform bpfloader was not started.
C18_Witness ==
    /\ MapNotCreated
    /\ SweepPassed
    /\ sanity = "failed"
    /\ pc = "returned" /\ exitCode = << 1 >>
    /\ NoExec

----------------------------------------------------------------------------
(* C19 *)

\* 32-bit userspace on a kernel of at least 6.2.0
Userspace32OnNewKernel == us32 = "TRUE" /\ ~KernelBelow(kver, << 6, 2, 0 >>)

\* The x86 and the userspace condition have both been decided
WordSizeGateDecided == Len(checks) >= 5 \/ returnedAt = 306

KnownBuildTypes == {"eng", "user", "userdebug"}

----------------------------------------------------------------------------
(* C20 *)

\* Positions of main() at the six predicates of the capability gate
GatePcs == { "gate_T", "gate_U", "gate_V", "gate_x86", "gate_userspace",
             "gate_build_type" }

\* main() returned from one of the capability-gate checks
GateReturn == returnedAt \in {301, 306, 330, 337}

\* C20: when main() returned from a kernel-version, word-size or build-type
\* check, no /proc/sys file was written, no directory was created, no
\* Location was opened, no object was loaded, no map was created and no
\* execve() was attempted; and a step that evaluates one of the six gate
\* predicates changes nothing but the log, the device facts read, and the
\* position or the return of main().
C20_GateHasNoSideEffects ==
    /\ [](GateReturn =>
             /\ pc = "returned" /\ exitCode = << 1 >>
             /\ checks # << >> /\ checks[Len(checks)].logged
             /\ NoSysctlWrite /\ NoPinDir /\ NoObjectLoad /\ NoSanityCheck /\ NoExec
             /\ map = << >> /\ slept = 0)
    /\ [][checks' # checks =>
             /\ checks' = Append(checks, checks'[Len(checks')])
             /\ UNCHANGED << sysctls, mkdirs, fs, umask, execs, sweep, calls,
                             results, sanity, map, slept, ret >>]_vars
    /\ [][(pc \in GatePcs) => checks' # checks]_vars

\* An x86 device of API level V with a 32-bit kernel: main() returned 1 from the
\* fourth gate check, with nothing written, created, loaded or executed.
C20_Witness ==
    /\ returnedAt = 306
    /\ Len(checks) = 4
    /\ exitCode = << 1 >>
    /\ NoSysctlWrite /\ NoPinDir /\ NoObjectLoad /\ NoExec

----------------------------------------------------------------------------
(* C21 *)

\* The three knobs, in the order of the claim
SysctlFiles == << "/proc/sys/kernel/unprivileged_bpf_disabled",
                  "/proc/sys/net/core/bpf_jit_enable",
                  "/proc/sys/net/core/bpf_jit_kallsyms" >>

\* The return statement that follows the write of each knob
SysctlReturnLines == << 346, 355, 361 >>

SysctlPcs == { "sysctl_unprivileged_bpf_disabled", "sysctl_bpf_jit_enable",
               "sysctl_bpf_jit_kallsyms" }

\* The run passed the capability gate and is done with the sysctl stage
TunerDone == GatePassed /\ pc \notin SysctlPcs

\* The writes attempted so far are the first knobs of the order, once each
KnobsInOrder == sysctls = SubSeq(SysctlFiles, 1, Len(sysctls))

\* Every knob was written, or the last one written made main() return
AllKnobsUnlessFatal ==
    /\ sysctls # << >>
    /\ IF SysctlWriteFailed
       THEN returnedAt = SysctlReturnLines[Len(sysctls)]
       ELSE sysctls = SysctlFiles

\* C21 as stated: whatever the device API level, a run that passed the gate
\* and is done with the sysctl stage has attempted the three writes in order,
\* once each, unless one of them made main() return; and no write comes after
\* a pin-directory creation.
C21_KnobsWrittenAtEveryApiLevel ==
    /\ KnobsInOrder
    /\ TunerDone => AllKnobsUnlessFatal
    /\ (sysctls # << >> /\ pc \in SysctlPcs) => NoPinDir

\* C21, amended: the writes attempted are always the first knobs of the order
\* unprivileged_bpf_disabled, bpf_jit_enable, bpf_jit_kallsyms, once each; in
\* a run that passed the gate and is done with the sysctl stage, on a device
\* of API level U or above all three were attempted unless one made main()
\* return, in which case it is the last one attempted, and on a device below
\* API level U none was attempted; every write is made before the first
\* createSysFsBpfSubDir call.
C21_KnobsWrittenFromApiLevelU ==
    /\ [](KnobsInOrder)
    /\ [](TunerDone => IF isAtLeastU THEN AllKnobsUnlessFatal ELSE sysctls = << >>)
    /\ [](SysctlWriteFailed => pc = "returned" /\ exitCode = << 1 >> /\ NoPinDir)
    /\ [](~NoPinDir => /\ TunerDone
                       /\ isAtLeastU => sysctls = SysctlFiles)
    /\ [][sysctls' # sysctls =>
             /\ sysctls' = Append(sysctls, SysctlFiles[Len(sysctls) + 1])
             /\ mkdirs = << >> /\ mkdirs' = << >>]_vars
    /\ [][mkdirs' # mkdirs => sysctls' = sysctls]_vars

\* On a device of API level U the three writes succeeded, in order, and the
\* first pin directory is about to be created.
C21_Witness ==
    /\ device_api_level = ANDROID_API_U
    /\ pc = "create_dirs"
    /\ sysctls = SysctlFiles
    /\ ret = 0
    /\ mkdirs = << >>

----------------------------------------------------------------------------
(* C22 *)

\* The lines of the three execve() calls of main()
ExecLines == { 264, 286, 404 }

\* Positions at which the process has ended: its image was replaced, main()
\* returned, or abort() in exists() killed it
EndPcs == { "replaced", "returned", "aborted" }

\* C22: at most one execve() is attempted in a run and so at most one
\* succeeds; an execve() either replaces the image, after which no step of
\* main() is taken, or fails, after which the very next step is `return 1` two
\* lines below the call; main() returns only 1 or 2, never 0; and a run can
\* stop only with its image replaced, with main() returned, or killed by
\* abort() in exists() before any execve() (which is no return of main()).
C22_ExecIsTerminalAndNeverZero ==
    /\ [](/\ Len(execs) <= 1
          /\ \A k \in DOMAIN execs : execs[k].line \in ExecLines
          /\ pc \in {"replaced", "exec_failed"} => Len(execs) = 1
          /\ execs # << >> => pc \in {"replaced", "exec_failed", "returned"}
          /\ (execs # << >> /\ pc = "returned") =>
                exitCode = << 1 >> /\ returnedAt = execs[1].line + 2
          /\ pc = "returned" => exitCode \in { << 1 >>, << 2 >> }
          /\ pc # "returned" => exitCode = << >>
          /\ pc = "aborted" => execs = << >>
          /\ pc \notin EndPcs => ENABLED Next)
    /\ [][pc \notin EndPcs]_vars
    /\ [][execs' # execs =>
             /\ execs = << >> /\ Len(execs') = 1
             /\ pc' \in {"replaced", "exec_failed"}]_vars
    /\ [][pc = "exec_failed" =>
             /\ pc' = "returned"
             /\ exitCode' = << 1 >>
             /\ execs' = execs]_vars

\* After the sanity check the final execve() failed: main() returned 1 at
\* line 406.
C22_Witness ==
    /\ pc = "returned"
    /\ execs = << ExecOf(404, platformBpfLoader) >>
    /\ returnedAt = 406
    /\ exitCode = << 1 >>

----------------------------------------------------------------------------
(* C23 *)

\* The sixteen modes and their strings
ModeTable ==
    { << 1, "off" >>, << 2, "opportunistic" >>, << 3, "hostname" >>,
      << 4, "adguard" >>, << 5, "appliedprivacy" >>, << 6, "cleanbrowsing" >>,
      << 7, "cira" >>, << 8, "cznic" >>, << 9, "cloudflare" >>, << 10, "google" >>,
      << 11, "mullvad" >>, << 12, "quadnine" >>, << 13, "restena" >>,
      << 14, "switch" >>, << 15, "twnic" >>, << 16, "uncensoreddns" >> }

ValidModes == { p[1] : p \in ModeTable }

\* The setting is unset or holds the empty string
UnsetOrEmpty(ref) == ref = << >> \/ ref = << "" >>

\* The setting holds one of the sixteen mode strings
KnownMode(ref) == ref # << >> /\ \E p \in ModeTable : p[2] = ref[1]

\* The mode whose string the setting holds
ModeMatching(ref) == CHOOSE m \in ValidModes : << m, ref[1] >> \in ModeTable

\* The string getPrivateDnsMode maps: private_dns_mode, or
\* private_dns_default_mode when private_dns_mode is unset or empty
MappedSetting ==
    IF UnsetOrEmpty(settings[PRIVATE_DNS_MODE])
    THEN settings[PRIVATE_DNS_DEFAULT_MODE]
    ELSE settings[PRIVATE_DNS_MODE]

GetReturned == call.name = "getPrivateDnsMode"

\* C23: whatever the two settings hold, getPrivateDnsMode throws nothing and
\* returns one value: the mode of private_dns_mode when that holds a mode
\* string; the mode of private_dns_default_mode when private_dns_mode is unset
\* or empty and private_dns_default_mode holds a mode string; and
\* PRIVATE_DNS_MODE_OPPORTUNISTIC when the setting it maps is unset, empty or
\* no mode string.  The call leaves both settings as they were.
C23_GetPrivateDnsMode ==
    /\ [](GetReturned =>
             /\ thrown = "none"
             /\ Len(returned) = 1
             /\ returned[1] \in ValidModes
             /\ KnownMode(settings[PRIVATE_DNS_MODE]) =>
                    returned[1] = ModeMatching(settings[PRIVATE_DNS_MODE])
             /\ ( /\ UnsetOrEmpty(settings[PRIVATE_DNS_MODE])
                  /\ KnownMode(settings[PRIVATE_DNS_DEFAULT_MODE]) ) =>
                    returned[1] = ModeMatching(settings[PRIVATE_DNS_DEFAULT_MODE])
             /\ ~KnownMode(MappedSetting) =>
                    returned[1] = PRIVATE_DNS_MODE_OPPORTUNISTIC)
    /\ [][GetReturned' => settings' = settings]_vars

\* private_dns_mode is empty and private_dns_default_mode is "hostname":
\* getPrivateDnsMode returned PRIVATE_DNS_MODE_PROVIDER_HOSTNAME.
C23_Witness ==
    /\ GetReturned
    /\ settings[PRIVATE_DNS_MODE] = << "" >>
    /\ settings[PRIVATE_DNS_DEFAULT_MODE] = << "hostname" >>
    /\ returned = << PRIVATE_DNS_MODE_PROVIDER_HOSTNAME >>
    /\ thrown = "none"

----------------------------------------------------------------------------
(* C24 *)

SetReturned == call.name = "setPrivateDnsMode"

\* The string of mode m
StringOfMode(m) == CHOOSE s \in SettingStrings : << m, s >> \in ModeTable

\* C24: getPrivateDnsModeAsString and getPrivateDnsModeAsInt are inverses of
\* each other on the sixteen modes and their strings.  From any settings,
\* setPrivateDnsMode(m) with m one of the sixteen modes throws nothing, stores
\* the string of m in private_dns_mode and leaves private_dns_default_mode
\* alone, and a getPrivateDnsMode that follows it returns m; with any other m
\* it throws IllegalArgumentException and leaves both settings as they were.
C24_SetThenGetRoundTrip ==
    /\ [](/\ \A m \in ValidModes :
                LET s == getPrivateDnsModeAsString(m)
                IN  /\ s.thrown = "none"
                    /\ s.value = << StringOfMode(m) >>
                    /\ getPrivateDnsModeAsInt(s.value) =
                          [thrown |-> "none", value |-> << m >>]
          /\ \A p \in ModeTable :
                LET n == getPrivateDnsModeAsInt(<< p[2] >>)
                IN  /\ n = [thrown |-> "none", value |-> << p[1] >>]
                    /\ getPrivateDnsModeAsString(n.value[1]).value = << p[2] >>
          /\ \A m \in ModeArgs \ ValidModes :
                getPrivateDnsModeAsString(m).thrown = IllegalArgumentException)
    /\ [][(SetReturned' /\ call'.arg \in ValidModes) =>
             /\ thrown' = "none"
             /\ settings'[PRIVATE_DNS_MODE] = << StringOfMode(call'.arg) >>
             /\ settings'[PRIVATE_DNS_DEFAULT_MODE] = settings[PRIVATE_DNS_DEFAULT_MODE]]_vars
    /\ [][(SetReturned /\ thrown = "none" /\ GetReturned') =>
             /\ call.arg \in ValidModes
             /\ thrown' = "none"
             /\ returned' = << call.arg >>]_vars
    /\ [][(SetReturned' /\ call'.arg \notin ValidModes) =>
             /\ thrown' = IllegalArgumentException
             /\ settings' = settings]_vars
    /\ []((SetReturned /\ thrown # "none") => call.arg \notin ValidModes)

\* With private_dns_mode holding no mode string and private_dns_default_mode
\* holding "off", setPrivateDnsMode(PRIVATE_DNS_MODE_PROVIDER_HOSTNAME) stored
\* "hostname".
C24_Witness ==
    /\ SetReturned
    /\ call.arg = PRIVATE_DNS_MODE_PROVIDER_HOSTNAME
    /\ thrown = "none"
    /\ settings[PRIVATE_DNS_MODE] = << "hostname" >>
    /\ settings[PRIVATE_DNS_DEFAULT_MODE] = << "off" >>

====
